---- MODULE Spec2Model ----
(***************************************************************************)
(* A model of metis: the three-tier content fetcher, the document store    *)
(* that keeps its records in the headers of Markdown files, and the        *)
(* lifecycle state machine.                                                *)
(*                                                                         *)
(* Text is modelled as a sequence of atoms.  An atom is a string standing  *)
(* for one character ("\n", ":", "\"", " ") or for a run of characters     *)
(* that no operation of the program splits ("title", "example.com").       *)
(***************************************************************************)
EXTENDS Naturals, Sequences, FiniteSets, TLC

(***************************************************************************)
(* Bounds of the model.                                                    *)
(***************************************************************************)
\* how many times the wall clock is read in one behaviour of the store
MaxClock == 2
\* how many fetches are started in one behaviour of the fetcher
MaxFetches == 2
\* how many updates one document receives in one behaviour of the codec
MaxUpdates == 2

(***************************************************************************)
(* Text helpers (Python str operations on sequences of atoms).             *)
(***************************************************************************)
\* needle in hay
Contains(needle, hay) ==
    \E i \in 0..(Len(hay) - Len(needle)) :
        SubSeq(hay, i + 1, i + Len(needle)) = needle

\* s.startswith(prefix)
StartsWith(s, prefix) ==
    /\ Len(prefix) <= Len(s)
    /\ SubSeq(s, 1, Len(prefix)) = prefix

\* s.endswith(suffix)
EndsWith(s, suffix) ==
    /\ Len(suffix) <= Len(s)
    /\ SubSeq(s, Len(s) - Len(suffix) + 1, Len(s)) = suffix

\* s[:n]
Take(s, n) == SubSeq(s, 1, IF n < Len(s) THEN n ELSE Len(s))

\* s[n:]  (n counted from 0)
Drop(s, n) == SubSeq(s, n + 1, Len(s))

\* the index of the first occurrence of atom a in s, 0 when there is none
IndexOf(s, a) ==
    IF \E i \in 1..Len(s) : s[i] = a
    THEN CHOOSE i \in 1..Len(s) : s[i] = a /\ \A j \in 1..(i - 1) : s[j] # a
    ELSE 0

RECURSIVE Split(_, _)
\* s.split(sep) for a one-atom separator
Split(s, sep) ==
    LET i == IndexOf(s, sep)
    IN  IF i = 0 THEN << s >>
        ELSE << SubSeq(s, 1, i - 1) >> \o Split(Drop(s, i), sep)

RECURSIVE Join(_, _)
\* sep.join(parts)
Join(parts, sep) ==
    IF Len(parts) = 0 THEN << >>
    ELSE IF Len(parts) = 1 THEN parts[1]
    ELSE parts[1] \o sep \o Join(Tail(parts), sep)

Whitespace == {" ", "\n", "\t"}

RECURSIVE LStripSet(_, _)
LStripSet(s, chars) ==
    IF Len(s) > 0 /\ s[1] \in chars THEN LStripSet(Tail(s), chars) ELSE s

RECURSIVE RStripSet(_, _)
RStripSet(s, chars) ==
    IF Len(s) > 0 /\ s[Len(s)] \in chars
    THEN RStripSet(SubSeq(s, 1, Len(s) - 1), chars) ELSE s

\* s.strip(chars)
StripSet(s, chars) == RStripSet(LStripSet(s, chars), chars)

\* s.strip()
Strip(s) == StripSet(s, Whitespace)

(***************************************************************************)
(* Platform detection (fetchers/platform.py).                              *)
(***************************************************************************)
\* A URL is "https://" + host + path; host and path are sequences of atoms.
MkUrl(host, path) == [host |-> host, path |-> path]

\* the text of a URL as it is written into files and searched for
UrlText(u) == << "https://" >> \o u.host \o u.path

\* str.lower() on one atom
LowerAtom(a) ==
    CASE a = "X.COM"     -> "x.com"
      [] a = "Example.com" -> "example.com"
      [] a = ".PNG"        -> ".png"
      [] OTHER           -> a

\* str.lower()
Lower(s) == [i \in 1..Len(s) |-> LowerAtom(s[i])]

PlatformInfo(name, login, referer) ==
    [name |-> name, requires_login |-> login, referer |-> referer]

PLATFORMS ==
    [ wechat      |-> PlatformInfo("wechat", FALSE, "https://mp.weixin.qq.com/"),
      xiaohongshu |-> PlatformInfo("xiaohongshu", FALSE, "https://www.xiaohongshu.com/"),
      zhihu       |-> PlatformInfo("zhihu", FALSE, "https://www.zhihu.com/"),
      douyin      |-> PlatformInfo("douyin", FALSE, "https://www.douyin.com/"),
      bilibili    |-> PlatformInfo("bilibili", FALSE, "https://www.bilibili.com/"),
      taobao      |-> PlatformInfo("taobao", TRUE, "https://www.taobao.com/"),
      jd          |-> PlatformInfo("jd", TRUE, "https://www.jd.com/"),
      weibo       |-> PlatformInfo("weibo", FALSE, "https://weibo.com/"),
      toutiao     |-> PlatformInfo("toutiao", FALSE, "https://www.toutiao.com/"),
      twitter     |-> PlatformInfo("twitter", FALSE, "https://twitter.com/") ]

\* `needle in host` for a one-atom domain name
HostHas(host, domain) == Contains(<< domain >>, host)

detect_platform(u) ==
    LET host == Lower(u.host)
    IN  IF Contains(<< "mp.", "weixin.qq.com" >>, host) \/ HostHas(host, "weixin.qq.com")
            THEN PLATFORMS.wechat
        ELSE IF HostHas(host, "xiaohongshu.com") \/ HostHas(host, "xhslink.com")
            THEN PLATFORMS.xiaohongshu
        ELSE IF HostHas(host, "zhihu.com") THEN PLATFORMS.zhihu
        ELSE IF HostHas(host, "douyin.com") THEN PLATFORMS.douyin
        ELSE IF HostHas(host, "bilibili.com") THEN PLATFORMS.bilibili
        ELSE IF HostHas(host, "taobao.com") THEN PLATFORMS.taobao
        ELSE IF HostHas(host, "jd.com") \/ HostHas(host, "jd.hk") THEN PLATFORMS.jd
        ELSE IF HostHas(host, "weibo.com") \/ HostHas(host, "weibo.cn") THEN PLATFORMS.weibo
        ELSE IF HostHas(host, "toutiao.com") THEN PLATFORMS.toutiao
        ELSE IF HostHas(host, "twitter.com") \/ HostHas(host, "x.com")
            THEN PLATFORMS.twitter
        ELSE PlatformInfo("unknown", FALSE, "none")

(***************************************************************************)
(* The URLs of the model.                                                  *)
(***************************************************************************)
\* an article on an unclassified site
UrlArticle == MkUrl(<< "example.com" >>, << "/a" >>)
\* a second article whose URL text begins with the text of UrlArticle
UrlArticle2 == MkUrl(<< "example.com" >>, << "/a", "1" >>)
\* a WeChat public-account article
UrlWechat == MkUrl(<< "mp.", "weixin.qq.com" >>, << "/s" >>)
\* a post on X
UrlTweet == MkUrl(<< "X.COM" >>, << "/p" >>)

FetchUrls == {UrlArticle, UrlWechat, UrlTweet}

(***************************************************************************)
(* The acquisition tiers (fetchers/__init__.py).                           *)
(***************************************************************************)
\* len(markdown) > 100, len(response.text) > 100, len(content["content"]) > 100
MinContentLen == 100
\* markdown[:500], the leading slice searched for the second marker
MarkerSliceLen == 500
\* len("完成验证") = len("环境异常")
MarkerLen == 4

None == [kind |-> "none"]

\* The markdown a service returns: its length, and the position (counted
\* from 1, 0 = absent) of the first occurrence of each verification marker.
Markdowns ==
    { m \in [len : {50, 100, 101, 700}, env : {0, 10, 600}, verify : {0, 10, 600}] :
        /\ m.env = 0 \/ m.env + MarkerLen - 1 <= m.len
        /\ m.verify = 0 \/ m.verify + MarkerLen - 1 <= m.len
        /\ m.env = 0 \/ m.verify = 0 \/ m.env # m.verify }

\* what can go wrong inside a tier
Failures == {"missing_library", "network_error", "timeout", "malformed_response"}

\* "环境异常" in markdown or "完成验证" in markdown[:500]
IsVerificationPage(m) ==
    \/ m.env > 0
    \/ m.verify > 0 /\ m.verify + MarkerLen - 1 <= MarkerSliceLen

FetchedContent(u, tier, m) ==
    [kind |-> "content", url |-> u, tier |-> tier, markdown |-> m,
     platform |-> detect_platform(u).name]

\* a handler that names the network errors only
CaughtNetworkOnly(exc) == exc \in {"network_error", "timeout"}

\* `except Exception: pass` around the body of every tier
Caught(exc) == exc \in Failures

\* what the scraping service answers: an exception, no result, or markdown
FirecrawlResponses ==
    [kind : {"raise"}, exc : Failures]
      \cup {[kind |-> "empty"]}
      \cup [kind : {"ok"}, md : Markdowns]

\* FirecrawlFetcher.fetch once the service has answered
FirecrawlResult(u, r) ==
    IF r.kind = "ok" /\ ~IsVerificationPage(r.md) /\ r.md.len > MinContentLen
    THEN FetchedContent(u, "firecrawl", r.md)
    ELSE None

JinaResponses ==
    [kind : {"raise"}, exc : Failures]
      \cup [kind : {"ok"}, status : {200, 404}, md : Markdowns]

\* JinaFetcher.fetch once the proxy has answered
JinaResult(u, r) ==
    IF r.kind = "ok" /\ r.status = 200 /\ r.md.len > MinContentLen
       /\ ~IsVerificationPage(r.md)
    THEN FetchedContent(u, "jina", r.md)
    ELSE None

\* What the browser session meets: an exception, or a page.  marker0: the
\* loaded page shows a verification marker; button: the verify control is
\* found; marker1: the marker is still shown after the click; len: the
\* length of the extracted text.
PlaywrightPages ==
    [kind : {"raise"}, exc : Failures]
      \cup [kind : {"ok"}, marker0 : BOOLEAN, button : BOOLEAN, marker1 : BOOLEAN,
            len : {50, 101}]

\* the page content checked at line 163: re-read only after a click
StillVerification(pg) ==
    pg.marker0 /\ (IF pg.button THEN pg.marker1 ELSE TRUE)

\* PlaywrightFetcher.fetch once the page is loaded
PlaywrightResult(u, pg) ==
    IF pg.kind = "ok" /\ ~StillVerification(pg) /\ pg.len > MinContentLen
    THEN FetchedContent(u, "playwright", [len |-> pg.len, env |-> 0, verify |-> 0])
    ELSE None

(***************************************************************************)
(* The header codec (storage/__init__.py, storage/database.py).            *)
(*                                                                         *)
(* A parsed header is a Python dict: here a sequence of [key, val] pairs   *)
(* with distinct keys, in insertion order.  A value is a string            *)
(* [t |-> "str", v |-> text], a list of strings [t |-> "list", v |-> <<text>>] *)
(* or, among the updates only, a boolean [t |-> "bool", v |-> b].          *)
(***************************************************************************)
StrVal(text) == [t |-> "str", v |-> text]
ListVal(items) == [t |-> "list", v |-> items]
BoolVal(b) == [t |-> "bool", v |-> b]

\* key in d
DictHas(d, k) == \E i \in 1..Len(d) : d[i].key = k

\* d[k]
DictGet(d, k) == d[CHOOSE i \in 1..Len(d) : d[i].key = k].val

\* d[k] = v: an existing key keeps its place, a new key goes last
DictSet(d, k, v) ==
    IF DictHas(d, k)
    THEN [i \in 1..Len(d) |-> IF d[i].key = k THEN [key |-> k, val |-> v] ELSE d[i]]
    ELSE Append(d, [key |-> k, val |-> v])

RECURSIVE DictUpdate(_, _)
\* d.update(updates)
DictUpdate(d, updates) ==
    IF Len(updates) = 0 THEN d
    ELSE DictUpdate(DictSet(d, updates[1].key, updates[1].val), Tail(updates))

\* title.replace('"', '\\"')
RECURSIVE EscapeQuotes(_)
EscapeQuotes(s) ==
    IF Len(s) = 0 THEN << >>
    ELSE (IF s[1] = "\"" THEN << "\\", "\"" >> ELSE << s[1] >>) \o EscapeQuotes(Tail(s))

RECURSIVE QuotedItems(_)
\* ", ".join(f'"{t}"' for t in items)
QuotedItems(items) ==
    IF Len(items) = 0 THEN << >>
    ELSE << "\"" >> \o items[1] \o << "\"" >>
         \o (IF Len(items) > 1 THEN << ",", " " >> ELSE << >>)
         \o QuotedItems(Tail(items))

\* format_frontmatter: the header block and the blank line after it
format_frontmatter(title, url, platform, created, status, tags) ==
    << "---", "\n" >>
    \o << "title", ":", " ", "\"" >> \o EscapeQuotes(title) \o << "\"", "\n" >>
    \o << "url", ":", " ", "\"" >> \o url \o << "\"", "\n" >>
    \o << "platform", ":", " ", "\"" >> \o platform \o << "\"", "\n" >>
    \o << "created", ":", " " >> \o created \o << "\n" >>
    \o << "status", ":", " ", "\"" >> \o status \o << "\"", "\n" >>
    \o << "tags", ":", " ", "[" >> \o QuotedItems(tags) \o << "]", "\n" >>
    \o << "---", "\n", "\n" >>

\* the length of the run of whitespace that follows the opening "---"
RECURSIVE WhitespaceRun(_, _)
WhitespaceRun(content, from) ==
    IF from <= Len(content) /\ content[from] \in Whitespace
    THEN 1 + WhitespaceRun(content, from + 1)
    ELSE 0

\* the positions e >= from where "\n---" begins
ClosingAt(content, from) ==
    { e \in from..(Len(content) - 1) : content[e] = "\n" /\ content[e + 1] = "---" }

Max(S) == CHOOSE x \in S : \A y \in S : y <= x
Min(S) == CHOOSE x \in S : \A y \in S : x <= y

\* re.match(r'^---\s*\n(.*?)\n---', content, re.DOTALL): \s* is greedy and
\* gives back what the rest of the pattern needs, (.*?) stops at the first
\* "\n---".  first..last is group 1, end is the index of the closing "---".
FrontmatterMatch(content) ==
    IF ~(Len(content) > 0 /\ content[1] = "---")
    THEN [ok |-> FALSE, first |-> 0, last |-> 0, end |-> 0]
    ELSE
      LET run == WhitespaceRun(content, 2)
          J   == { j \in 2..(1 + run) :
                     content[j] = "\n" /\ ClosingAt(content, j + 1) # {} }
      IN  IF J = {}
          THEN [ok |-> FALSE, first |-> 0, last |-> 0, end |-> 0]
          ELSE LET j == Max(J)
                   e == Min(ClosingAt(content, j + 1))
               IN  [ok |-> TRUE, first |-> j + 1, last |-> e - 1, end |-> e + 1]

RECURSIVE ParseItems(_)
\* the items of a bracketed value: stripped, unquoted, empty ones dropped
ParseItems(parts) ==
    IF Len(parts) = 0 THEN << >>
    ELSE LET item == StripSet(StripSet(Strip(parts[1]), {"\""}), {"'"})
         IN  (IF Len(item) > 0 THEN << item >> ELSE << >>) \o ParseItems(Tail(parts))

\* the value of one header line
ParseValue(value) ==
    IF StartsWith(value, << "[" >>) /\ EndsWith(value, << "]" >>)
    THEN ListVal(ParseItems(Split(SubSeq(value, 2, Len(value) - 1), ",")))
    ELSE StrVal(StripSet(StripSet(value, {"\""}), {"'"}))

RECURSIVE ParseLines(_, _)
\* the loop over the header lines: a line with no colon is skipped
ParseLines(lines, result) ==
    IF Len(lines) = 0 THEN result
    ELSE LET line == lines[1]
             c    == IndexOf(line, ":")
         IN  IF c = 0 THEN ParseLines(Tail(lines), result)
             ELSE ParseLines(Tail(lines),
                             DictSet(result,
                                     Strip(SubSeq(line, 1, c - 1)),
                                     ParseValue(Strip(Drop(line, c)))))

_read_frontmatter(content) ==
    LET m == FrontmatterMatch(content)
    IN  IF ~m.ok THEN << >>
        ELSE ParseLines(Split(SubSeq(content, m.first, m.last), "\n"), << >>)

\* how _write_frontmatter_update renders a value
RenderValue(val) ==
    IF val.t = "bool" THEN << IF val.v THEN "true" ELSE "false" >>
    ELSE IF val.t = "list" THEN << "[" >> \o QuotedItems(val.v) \o << "]" >>
    ELSE << "\"" >> \o val.v \o << "\"" >>

RECURSIVE RenderLines(_)
\* one "key: value" line per entry
RenderLines(d) ==
    IF Len(d) = 0 THEN << >>
    ELSE << d[1].key \o << ":", " " >> \o RenderValue(d[1].val) >> \o RenderLines(Tail(d))

\* "\n".join(["---"] + lines + ["---"])
SerializeFrontmatter(d) ==
    Join(<< << "---" >> >> \o RenderLines(d) \o << << "---" >> >>, << "\n" >>)

\* _write_frontmatter_update: the new text of a file holding `content`; the
\* file is left as it is when there is no header to rewrite
_write_frontmatter_update(content, updates) ==
    LET m == FrontmatterMatch(content)
    IN  IF ~m.ok THEN content
        ELSE SerializeFrontmatter(DictUpdate(_read_frontmatter(content), updates))
             \o Drop(content, m.end)

\* the index (from 1) of the line that closes the header in
\* _update_frontmatter_status, 0 when the loop finds none
ClosingLine(lines) ==
    IF Len(lines) > 0 /\ lines[1] = << "---" >>
       /\ \E i \in 2..Len(lines) : lines[i] = << "---" >>
    THEN Min({ i \in 2..Len(lines) : lines[i] = << "---" >> })
    ELSE 0

\* _update_frontmatter_status: the new text of a file holding `content`
_update_frontmatter_status(content, status) ==
    IF ~(Len(content) > 0 /\ content[1] = "---") THEN content
    ELSE
      LET lines == Split(content, "\n")
          close == ClosingLine(lines)
      IN  IF close = 0 THEN content
          ELSE LET new_frontmatter_lines ==
                       [i \in 1..close |->
                           IF StartsWith(lines[i], << "status", ":" >>)
                           THEN << "status", ":", " ", "\"" >> \o status \o << "\"" >>
                           ELSE lines[i]]
               IN  Join(new_frontmatter_lines, << "\n" >>) \o << "\n" >>
                   \o Join(SubSeq(lines, close + 1, Len(lines)), << "\n" >>)

(***************************************************************************)
(* State.                                                                  *)
(***************************************************************************)
VARIABLES
    \* ---- ContentFetcher.fetch ----
    apiKey,      \* settings.firecrawl_api_key is configured
    fpc,         \* where the running fetch stands
    fUrl,        \* its argument
    fIdx,        \* the index of the loop over self.fetchers
    attempts,    \* the tier attempts of the running fetch, in start order
    fResult,     \* what fetch returned
    fRaised,     \* the exception fetch raised to its caller, "none" if none
    fCount,      \* fetches started so far
    \* ---- a ContentRecord handed to transition_record ----
    wfRec,       \* the record: status, extracted_at, read_at
    wfNow,       \* the reading of datetime.now()
    wfLast,      \* the last call: the record before it, its target, its outcome
    wfHistory,   \* the statuses the record has held, oldest first
    \* ---- the vault on disk ----
    files,       \* path -> text of the file, for the .md files that exist
    now,         \* how many times datetime.now() has been read, plus one
    ret,         \* the path the last call of save_to_obsidian returned
    last,        \* a caller's note of the arguments of its last save_to_obsidian
    \* ---- one document under the header codec ----
    doc,         \* the text of the file
    docBefore,   \* its text before the last update
    codecOp,     \* the last update: its path, its arguments, and how many came before
    \* ---- one call of _guess_extension ----
    extUrl,      \* the URL of the image
    extContent,  \* the bytes of the response
    extOut,      \* the extension returned, "none" before the call
    \* ---- one call of process_content ----
    mpc,                \* where the call stands: "extract", "download", "done"
    raw_markdown,       \* its argument
    image_urls,         \* the list extract_image_urls returned
    imgIdx,             \* the index of the loop over image_urls
    requests,           \* the calls of download_image so far, and how each ended
    downloaded_images,  \* the dict of the URLs downloaded, to their local paths
    processed,          \* the markdown and the images of the result
    \* ---- one call of detect_platform ----
    dpUrl,       \* its argument
    dpOut,       \* the profile returned, NoProfile before the call
    \* ---- one call of PlaywrightFetcher.fetch ----
    bpc,           \* where the call stands
    bUrl,          \* its argument
    browser,       \* "none", "open", "closed" (browser.close()), "exited" (the context manager)
    page_content,  \* the page read last shows a verification marker
    marker0,       \* the page read first showed one
    verify_btn,    \* "unknown" before the query, then "found" or "none"
    clicks,        \* the calls of verify_btn.click() so far
    waits,         \* the calls of page.wait_for_load_state() so far
    checks,        \* how often the test of line 163 has run
    extracted,     \* an extraction of content was started
    bResult,       \* what the call returned
    bExc,          \* the exception the handler of line 185 caught, "none" if none
    \* ---- one call of JinaFetcher._extract_title ----
    etMarkdown,  \* its argument
    etOut,       \* the title returned, NoTitle before the call
    \* ---- one document written into an empty inbox and read back ----
    hdArgs,      \* the title, the URL and the status save_to_obsidian is called with
    hdText,      \* the text of the file written, empty before the call
    hdData,      \* what get_url returned, NotRead before the call
    \* ---- one run of the CLI command sync ----
    spc,          \* "loop", "complete" (line 193) or "exited" (typer.Exit left _sync)
    urls,         \* the list read_url_inbox returned
    syncIdx,      \* the index of the loop over urls
    inbox,        \* the documents of the inbox, by the URL of their header
    attempted,    \* the URLs _fetch was called with, in order
    skipped,      \* the URLs passed over as already processed, in order
    target_lang,  \* settings.translation_target_lang
    \* ---- two requests to POST /api/fetch for one URL, in one event loop ----
    apc,            \* where each pipeline stands
    aUrl,           \* the URL of both requests
    aTitle,         \* the title of the content each pipeline fetched
    aExisting,      \* what get_content_path returned to each pipeline
    running,        \* the pipeline that holds the event loop, "idle" between steps
    apiInbox        \* the files of the inbox: by name, the URL and the status of the header

fetchVars == << apiKey, fpc, fUrl, fIdx, attempts, fResult, fRaised, fCount >>

wfVars == << wfRec, wfNow, wfLast, wfHistory >>

storeVars == << files, now, ret, last >>

codecVars == << doc, docBefore, codecOp >>

\* the state of the components that are functions of their arguments
extVars == << extUrl, extContent, extOut >>

mediaVars ==
    << mpc, raw_markdown, image_urls, imgIdx, requests, downloaded_images, processed >>

platVars == << dpUrl, dpOut >>

\* the state of the remaining components
browserVars ==
    << bpc, bUrl, browser, page_content, marker0, verify_btn, clicks, waits, checks,
       extracted, bResult, bExc >>

titleVars == << etMarkdown, etOut >>

headerVars == << hdArgs, hdText, hdData >>

syncVars == << spc, urls, syncIdx, inbox, attempted, skipped, target_lang >>

apiVars == << apc, aUrl, aTitle, aExisting, running, apiInbox >>

moreVars == << platVars, browserVars, titleVars, headerVars, syncVars, apiVars >>

pureVars == << codecVars, extVars, mediaVars, moreVars >>

vars == << fetchVars, wfVars, storeVars, pureVars >>

(***************************************************************************)
(* ContentFetcher.fetch (fetchers/__init__.py).                            *)
(***************************************************************************)
\* the list with its first two entries exchanged
FetchersSwapped == << "jina", "firecrawl", "playwright" >>

\* self.fetchers
Fetchers == << "firecrawl", "jina", "playwright" >>

\* the tier the running fetch attempts next
NextTier == IF fpc = "priority" THEN "playwright" ELSE Fetchers[fIdx]

\* an attempt has been started and has not completed
Pending == Len(attempts) > 0 /\ attempts[Len(attempts)].out = "pending"

Outcome(result) == IF result = None THEN "none" ELSE "content"

\* the test the comment above it describes: "platforms that require login"
PriorityByLogin(u) == detect_platform(u).requires_login

\* `if platform.name == "wechat"`: the headless browser goes first
PriorityPlatform(u) == detect_platform(u).name = "wechat"

InitFetch ==
    /\ apiKey \in BOOLEAN
    /\ fpc = "idle"
    /\ fUrl = UrlArticle
    /\ fIdx = 1
    /\ attempts = << >>
    /\ fResult = None
    /\ fRaised = "none"
    /\ fCount = 0

\* the caller awaits fetcher.fetch(url)
FetchStart(u) ==
    /\ fpc = "idle"
    /\ fCount < MaxFetches
    /\ fCount' = fCount + 1
    /\ fUrl' = u
    /\ fpc' = IF PriorityPlatform(u) THEN "priority" ELSE "loop"
    /\ fIdx' = 1
    /\ attempts' = << >>
    /\ fResult' = None
    /\ fRaised' = "none"
    /\ UNCHANGED apiKey
    /\ UNCHANGED << wfVars, storeVars, pureVars >>

\* `if result: return result`, else on to the next fetcher, `return None`
\* after the last; log is the attempts with this one's outcome recorded
Advance(result, log) ==
    /\ attempts' = log
    /\ IF result # None
       THEN /\ fpc' = "returned"
            /\ fResult' = result
            /\ fIdx' = fIdx
       ELSE IF fpc = "priority"
       THEN /\ fpc' = "loop"
            /\ fIdx' = 1
            /\ fResult' = None
       ELSE IF fIdx = Len(Fetchers)
       THEN /\ fpc' = "returned"
            /\ fResult' = None
            /\ fIdx' = fIdx
       ELSE /\ fpc' = "loop"
            /\ fIdx' = fIdx + 1
            /\ fResult' = None
    /\ UNCHANGED << apiKey, fUrl, fRaised, fCount >>

\* the exception a tier's body met, "none" if it met none
Met(r) == IF r.kind = "raise" THEN r.exc ELSE "none"

\* the attempts with the pending one completed
Completed(r, result) ==
    [attempts EXCEPT ![Len(attempts)].out = Outcome(result),
                     ![Len(attempts)].exc = Met(r)]

\* a tier's body ended: with a result, or with an exception that its
\* handler swallows (the tier returns None) or lets through to the caller
TierEnds(r, result) ==
    IF r.kind = "raise" /\ ~Caught(r.exc)
    THEN /\ fpc' = "raised"
         /\ fRaised' = r.exc
         /\ attempts' = [attempts EXCEPT ![Len(attempts)].out = "raised",
                                         ![Len(attempts)].exc = r.exc]
         /\ UNCHANGED << apiKey, fUrl, fIdx, fResult, fCount >>
    ELSE Advance(result, Completed(r, result))

\* FirecrawlFetcher.fetch without a credential: returns None at once
FirecrawlNoKey ==
    /\ fpc = "loop" /\ ~Pending
    /\ NextTier = "firecrawl"
    /\ ~apiKey
    /\ Advance(None, Append(attempts, [tier |-> "firecrawl", phase |-> fpc, out |-> "none", exc |-> "none"]))
    /\ UNCHANGED << wfVars, storeVars, pureVars >>

\* a tier is entered and awaits its service
TierStart ==
    /\ fpc \in {"priority", "loop"} /\ ~Pending
    /\ NextTier = "firecrawl" => apiKey
    /\ attempts' = Append(attempts, [tier |-> NextTier, phase |-> fpc, out |-> "pending", exc |-> "none"])
    /\ UNCHANGED << apiKey, fpc, fUrl, fIdx, fResult, fRaised, fCount >>
    /\ UNCHANGED << wfVars, storeVars, pureVars >>

FirecrawlComplete(r) ==
    /\ fpc \in {"priority", "loop"} /\ Pending
    /\ NextTier = "firecrawl"
    /\ TierEnds(r, FirecrawlResult(fUrl, r))
    /\ UNCHANGED << wfVars, storeVars, pureVars >>

JinaComplete(r) ==
    /\ fpc \in {"priority", "loop"} /\ Pending
    /\ NextTier = "jina"
    /\ TierEnds(r, JinaResult(fUrl, r))
    /\ UNCHANGED << wfVars, storeVars, pureVars >>

PlaywrightComplete(pg) ==
    /\ fpc \in {"priority", "loop"} /\ Pending
    /\ NextTier = "playwright"
    /\ TierEnds(pg, PlaywrightResult(fUrl, pg))
    /\ UNCHANGED << wfVars, storeVars, pureVars >>

\* the caller has the result (or the exception) of fetch
FetchReturn ==
    /\ fpc \in {"returned", "raised"}
    /\ fpc' = "idle"
    /\ attempts' = << >>
    /\ fResult' = None
    /\ fRaised' = "none"
    /\ fIdx' = 1
    /\ UNCHANGED << apiKey, fUrl, fCount >>
    /\ UNCHANGED << wfVars, storeVars, pureVars >>

NextFetch ==
    \/ \E u \in FetchUrls : FetchStart(u)
    \/ FirecrawlNoKey
    \/ TierStart
    \/ \E r \in FirecrawlResponses : FirecrawlComplete(r)
    \/ \E r \in JinaResponses : JinaComplete(r)
    \/ \E pg \in PlaywrightPages : PlaywrightComplete(pg)
    \/ FetchReturn

(***************************************************************************)
(* The lifecycle state machine (workflow/__init__.py).                     *)
(***************************************************************************)
ContentStatus ==
    {"pending", "extracted", "read", "valuable", "archived", "creating",
     "knowledge_base"}

\* the table with archived documents allowed back into reading
VALID_TRANSITIONS_Reopen ==
    [ pending        |-> << "extracted" >>,
      extracted      |-> << "read" >>,
      read           |-> << "valuable", "archived" >>,
      valuable       |-> << "creating", "knowledge_base" >>,
      archived       |-> << "read" >>,
      creating       |-> << >>,
      knowledge_base |-> << >> ]

VALID_TRANSITIONS ==
    [ pending        |-> << "extracted" >>,
      extracted      |-> << "read" >>,
      read           |-> << "valuable", "archived" >>,
      valuable       |-> << "creating", "knowledge_base" >>,
      archived       |-> << >>,
      creating       |-> << >>,
      knowledge_base |-> << >> ]

\* a check that lets every request through
can_transition_Any(current, target) == target \in ContentStatus

\* target in VALID_TRANSITIONS.get(current, [])
can_transition(current, target) ==
    /\ current \in DOMAIN VALID_TRANSITIONS
    /\ \E i \in 1..Len(VALID_TRANSITIONS[current]) :
          VALID_TRANSITIONS[current][i] = target

\* a ContentRecord as constructed: the timestamps default to None (0)
InitWorkflow ==
    /\ wfRec \in [status : ContentStatus, extracted_at : {0}, read_at : {0}]
    /\ wfNow = 1
    /\ wfLast = [before |-> wfRec, target |-> wfRec.status, outcome |-> "none"]
    /\ wfHistory = << wfRec.status >>

transition_record(new_status) ==
    IF ~can_transition(wfRec.status, new_status)
    THEN \* raise ValueError
         /\ wfLast' = [before |-> wfRec, target |-> new_status, outcome |-> "ValueError"]
         /\ UNCHANGED << wfRec, wfNow, wfHistory >>
         /\ UNCHANGED << fetchVars, storeVars, pureVars >>
    ELSE /\ wfRec' = [ status       |-> new_status,
                       extracted_at |-> IF new_status = "extracted" THEN wfNow
                                        ELSE wfRec.extracted_at,
                       read_at      |-> IF new_status = "read" THEN wfNow
                                        ELSE wfRec.read_at ]
         /\ wfNow' = wfNow + 1
         /\ wfLast' = [before |-> wfRec, target |-> new_status, outcome |-> "ok"]
         /\ wfHistory' = Append(wfHistory, new_status)
         /\ UNCHANGED << fetchVars, storeVars, pureVars >>

NextWorkflow == \E target \in ContentStatus : transition_record(target)

(***************************************************************************)
(* The document store (storage/__init__.py, storage/database.py, and the   *)
(* commands of cli/__init__.py that write to it).                          *)
(***************************************************************************)
\* the characters re.sub(r'[<>:"/\\|?*]', "", name) removes
UnsafeChars == {"<", ">", ":", "\"", "/", "\\", "|", "?", "*"}

\* the atoms of the model that are neither word characters nor "-" or "_"
NonWordChars ==
    UnsafeChars \cup {" ", "\n", "\t", "!", ".", ",", "'", "[", "]", "(", ")", "#"}

\* name[:80] in _sanitize_filename
SanitizeLimit == 80
\* safe_title[:50] in save_to_obsidian
FilenameLimit == 50

\* [x for x in s if keep(x)], with " " replaced by "-" when dash is set
RECURSIVE FilterOut(_, _)
FilterOut(s, drop) ==
    IF Len(s) = 0 THEN << >>
    ELSE (IF s[1] \in drop THEN << >> ELSE << s[1] >>) \o FilterOut(Tail(s), drop)

\* name.replace(" ", "-")
SpacesToDashes(s) == [i \in 1..Len(s) |-> IF s[i] = " " THEN "-" ELSE s[i]]

_sanitize_filename(name) ==
    LET c        == IndexOf(name, ":")
        rest     == IF c = 0 THEN << >> ELSE Strip(Drop(name, c))
        stripped == IF c # 0 /\ Len(rest) > 0 THEN rest ELSE name
        safe     == FilterOut(SpacesToDashes(FilterOut(stripped, UnsafeChars)),
                              NonWordChars)
        cut      == Take(safe, SanitizeLimit)
    IN  IF Len(cut) = 0 THEN << "untitled" >> ELSE cut

\* the two folders save_to_obsidian writes to: vault / inbox_path, and vault
InboxDir == "inbox"
VaultDir == "vault"

MkPath(dir, name) == [dir |-> dir, name |-> name]

\* datetime.now().isoformat() at the n-th reading of the clock
Timestamps == << "t1", "t2", "t3", "t4", "t5", "t6" >>
IsoNow == << Timestamps[now] >>

\* ProcessedContent as process_content builds it
ProcessedContent(url, title, markdown) ==
    [url |-> url, title |-> title, markdown |-> markdown,
     platform_name |-> << detect_platform(url).name >>]

\* inbox_path.glob("*.md") filtered by `url in md_file.read_text()`: the
\* files get_content_path and _find_url_file may return; which of several
\* comes first is up to the file system
FilesContaining(url) ==
    { p \in DOMAIN files : p.dir = InboxDir /\ Contains(UrlText(url), files[p]) }

NoPath == MkPath("none", << >>)
NoCall == [op |-> "none"]

InitStore ==
    /\ files = << >>
    /\ now = 1
    /\ ret = NoPath
    /\ last = NoCall

\* the branch of save_to_obsidian that finds a file for the URL
SaveExisting(content, status, use_inbox) ==
    \E existing_path \in FilesContaining(content.url) :
        /\ files' = [files EXCEPT ![existing_path] =
                        _update_frontmatter_status(files[existing_path], status)]
        /\ ret' = existing_path
        /\ UNCHANGED now

\* the branch of save_to_obsidian that writes a new file
SaveNew(content, status, use_inbox) ==
    LET base_path == IF use_inbox THEN InboxDir ELSE VaultDir
        safe_title == _sanitize_filename(content.title)
        file_path == MkPath(base_path, Take(safe_title, FilenameLimit))
        frontmatter == format_frontmatter(content.title, UrlText(content.url),
                                          content.platform_name, IsoNow, status,
                                          << content.platform_name, << "metis" >> >>)
    IN  /\ now <= MaxClock
        /\ files' = (file_path :> (frontmatter \o content.markdown)) @@ files
        /\ now' = now + 1
        /\ ret' = file_path

save_to_obsidian(content, status, use_inbox) ==
    /\ IF FilesContaining(content.url) # {}
       THEN SaveExisting(content, status, use_inbox)
       ELSE SaveNew(content, status, use_inbox)
    /\ UNCHANGED << fetchVars, wfVars, pureVars >>

\* a caller that calls save_to_obsidian and notes what it called it with
SaveCall(content, status, use_inbox) ==
    /\ save_to_obsidian(content, status, use_inbox)
    /\ last' = [op |-> "save", content |-> content, status |-> status,
                use_inbox |-> use_inbox]

\* a caller that keeps no note
SaveOnly(content, status, use_inbox) ==
    /\ save_to_obsidian(content, status, use_inbox)
    /\ UNCHANGED last

\* the fields update_status writes, a failure left without its time
StatusData_NoFailedStamp(status) ==
    << [key |-> << "status" >>, val |-> StrVal(status)] >>
    \o (IF status = << "extracted" >>
            THEN << [key |-> << "extracted_at" >>, val |-> StrVal(IsoNow)] >>
        ELSE IF status = << "read" >>
            THEN << [key |-> << "read_at" >>, val |-> StrVal(IsoNow)] >>
        ELSE IF status = << "valuable" >>
            THEN << [key |-> << "valuable_at" >>, val |-> StrVal(IsoNow)] >>
        ELSE IF status = << "archived" >>
            THEN << [key |-> << "archived_at" >>, val |-> StrVal(IsoNow)] >>
        ELSE << >>)

\* the fields update_status writes for a status
StatusData(status) ==
    << [key |-> << "status" >>, val |-> StrVal(status)] >>
    \o (IF status = << "extracted" >>
            THEN << [key |-> << "extracted_at" >>, val |-> StrVal(IsoNow)] >>
        ELSE IF status = << "read" >>
            THEN << [key |-> << "read_at" >>, val |-> StrVal(IsoNow)] >>
        ELSE IF status = << "valuable" >>
            THEN << [key |-> << "valuable_at" >>, val |-> StrVal(IsoNow)] >>
        ELSE IF status = << "archived" >>
            THEN << [key |-> << "archived_at" >>, val |-> StrVal(IsoNow)] >>
        ELSE IF status = << "failed" >>
            THEN << [key |-> << "failed_at" >>, val |-> StrVal(IsoNow)] >>
        ELSE << >>)

\* URLDatabase.update_status(url, status)
update_status(url, status) ==
    /\ IF FilesContaining(url) = {}
       THEN UNCHANGED << files, now >>
       ELSE /\ now <= MaxClock
            /\ \E file_path \in FilesContaining(url) :
                  files' = [files EXCEPT ![file_path] =
                              _write_frontmatter_update(files[file_path],
                                                        StatusData(status))]
            /\ now' = now + 1
    /\ ret' = NoPath
    /\ UNCHANGED << fetchVars, wfVars, pureVars, last >>

\* the commands mark-read, mark-valuable and archive
mark_read(url) == update_status(url, << "read" >>)
mark_valuable(url) == update_status(url, << "valuable" >>)
\* the command's own name written as the status
archive_AsNamed(url) == update_status(url, << "archive" >>)

archive(url) == update_status(url, << "archived" >>)

\* the command fetch when ContentFetcher.fetch returns None
fetch_failed(url) == update_status(url, << "failed" >>)

(***************************************************************************)
(* The inputs of the store.                                                *)
(***************************************************************************)
StoreUrls == {UrlArticle, UrlArticle2}

\* "J: T" (a title behind an author prefix) and "N"
Titles == { << "J", ":", " ", "T" >>, << "N" >> }

\* one line of text; text with a horizontal rule in it
Bodies == { << "hello" >>, << "intro", "\n", "---", "\n", "more" >> }

\* the statuses save_to_obsidian is called with: its default and the
\* callers' "extracted"
SaveStatuses == { << "pending" >>, << "extracted" >> }

Next ==
    \/ \E u \in StoreUrls, t \in Titles, b \in Bodies, st \in SaveStatuses,
          use_inbox \in BOOLEAN :
          SaveOnly(ProcessedContent(u, t, b), st, use_inbox)
    \/ \E u \in StoreUrls : mark_read(u)
    \/ \E u \in StoreUrls : mark_valuable(u)
    \/ \E u \in StoreUrls : archive(u)
    \/ \E u \in StoreUrls : fetch_failed(u)

(***************************************************************************)
(* One document under the two update paths of the header codec.            *)
(***************************************************************************)
\* a document as save_to_obsidian writes it, its body holding a rule line
DocWritten ==
    format_frontmatter(<< "N" >>, UrlText(UrlArticle), << "unknown" >>, << "t1" >>,
                       << "pending" >>, << << "unknown" >>, << "metis" >> >>)
    \o << "intro", "\n", "---", "\n", "more" >>

\* a document written by hand: keys the program does not know, an unquoted
\* value, a bracketed list, a single-quoted value that holds double quotes
DocByHand ==
    << "---", "\n",
       "kind", ":", " ", "draft", "\n",
       "links", ":", " ", "[", "a", ",", " ", "b", "]", "\n",
       "note", ":", " ", "'", "\"", "x", "\"", "'", "\n",
       "status", ":", " ", "read", "\n",
       "---", "\n", "hello" >>

\* a document that ends with the line that closes its header
DocHeaderOnly ==
    << "---", "\n", "kind", ":", " ", "draft", "\n", "---" >>

\* an empty header, and a body that holds a rule line
DocEmptyHeader ==
    << "---", "\n", "---", "\n", "intro", "\n", "---", "\n", "more" >>

\* no header
DocNoHeader == << "hello", "\n", "---", "\n", "more" >>

\* a header that is never closed
DocUnclosed == << "---", "\n", "title", ":", " ", "N", "\n", "hello" >>

\* a header that is never closed, before a body that holds a rule of four dashes
DocUnclosedRule ==
    << "---", "\n", "title", ":", " ", "N", "\n", "hello", "\n",
       "---", "-", "\n", "more" >>

Documents ==
    { DocWritten, DocByHand, DocHeaderOnly, DocEmptyHeader,
      DocNoHeader, DocUnclosed, DocUnclosedRule }

\* the updates the program passes to _write_frontmatter_update
Updates ==
    { << [key |-> << "status" >>, val |-> StrVal(<< "read" >>)],
         [key |-> << "read_at" >>, val |-> StrVal(<< "t2" >>)] >>,
      << [key |-> << "status" >>, val |-> StrVal(<< "failed" >>)],
         [key |-> << "failed_at" >>, val |-> StrVal(<< "t2" >>)] >>,
      << [key |-> << "is_english" >>, val |-> BoolVal(TRUE)] >>,
      << [key |-> << "has_translation" >>, val |-> BoolVal(TRUE)] >>,
      << [key |-> << "notes" >>, val |-> StrVal(<< "seen" >>)] >> }

InitCodec ==
    /\ doc \in Documents
    /\ docBefore = doc
    /\ codecOp = [name |-> "none", n |-> 0]

\* _write_frontmatter_update(file_path, updates) on the document
WriteUpdate(updates) ==
    /\ codecOp.n < MaxUpdates
    /\ docBefore' = doc
    /\ doc' = _write_frontmatter_update(doc, updates)
    /\ codecOp' = [name |-> "write", updates |-> updates, n |-> codecOp.n + 1]
    /\ UNCHANGED << fetchVars, wfVars, storeVars, extVars, mediaVars, moreVars >>

\* _update_frontmatter_status(file_path, status) on the document
StatusUpdate(status) ==
    /\ codecOp.n < MaxUpdates
    /\ docBefore' = doc
    /\ doc' = _update_frontmatter_status(doc, status)
    /\ codecOp' = [name |-> "status", status |-> status, n |-> codecOp.n + 1]
    /\ UNCHANGED << fetchVars, wfVars, storeVars, extVars, mediaVars, moreVars >>

NextCodec ==
    \/ \E updates \in Updates : WriteUpdate(updates)
    \/ \E status \in SaveStatuses : StatusUpdate(status)

(***************************************************************************)
(* _guess_extension (processors/__init__.py).  Content is a sequence of    *)
(* bytes, one atom a byte.                                                 *)
(***************************************************************************)
\* content[a:b]
Slice(content, a, b) == SubSeq(content, a + 1, IF b < Len(content) THEN b ELSE Len(content))

_guess_extension(url, content) ==
    IF Slice(content, 0, 4) = << "FF", "D8", "FF" >> THEN ".jpg"
    ELSE IF Slice(content, 0, 4) = << "89", "P", "N", "G" >> THEN ".png"
    ELSE IF \/ Slice(content, 0, 8) = << "G", "I", "F", "8", "9", "a" >>
            \/ Slice(content, 0, 8) = << "G", "I", "F", "8", "7", "a" >> THEN ".gif"
    ELSE IF /\ Slice(content, 0, 4) = << "R", "I", "F", "F" >>
            /\ Slice(content, 8, 12) = << "W", "E", "B", "P" >> THEN ".webp"
    ELSE LET url_lower == Lower(url)
         IN  IF Contains(<< ".jpg" >>, url_lower) \/ Contains(<< ".jpeg" >>, url_lower)
             THEN ".jpg"
             ELSE IF Contains(<< ".png" >>, url_lower) THEN ".png"
             ELSE IF Contains(<< ".gif" >>, url_lower) THEN ".gif"
             ELSE IF Contains(<< ".webp" >>, url_lower) THEN ".webp"
             ELSE ".jpg"

\* the URLs of the images: a path, and the suffix or the query after it
ImageUrls ==
    { << "https://cdn/a" >>,
      << "https://cdn/a", ".jpg" >>,
      << "https://cdn/a", ".jpeg" >>,
      << "https://cdn/a", ".png" >>,
      << "https://cdn/a", ".PNG" >>,
      << "https://cdn/a", ".gif" >>,
      << "https://cdn/a", ".webp" >>,
      << "https://cdn/a", ".png", "?s=2" >> }

\* the bodies of the responses: image files of each kind, whole and cut
\* right after the signature, and bytes that are no image
Contents ==
    { << "FF", "D8", "FF", "E0", "00", "10" >>,
      << "FF", "D8", "FF" >>,
      << "89", "P", "N", "G", "0D", "0A" >>,
      << "G", "I", "F", "8", "9", "a", "01", "00" >>,
      << "G", "I", "F", "8", "7", "a", "01", "00" >>,
      << "G", "I", "F", "8", "9", "a" >>,
      << "R", "I", "F", "F", "24", "00", "00", "00", "W", "E", "B", "P", "V" >>,
      << "R", "I", "F", "F", "24", "00", "00", "00", "W", "A", "V", "E" >>,
      << "3C", "68" >>,
      << >> }

InitExt ==
    /\ extUrl \in ImageUrls
    /\ extContent \in Contents
    /\ extOut = "none"

\* ext = _guess_extension(url, content) in download_image
GuessExtension ==
    /\ extOut = "none"
    /\ extOut' = _guess_extension(extUrl, extContent)
    /\ UNCHANGED << extUrl, extContent >>
    /\ UNCHANGED << fetchVars, wfVars, storeVars, codecVars, mediaVars, moreVars >>

NextExt == GuessExtension

(***************************************************************************)
(* process_content (processors/__init__.py).  Markup is a sequence of      *)
(* atoms: "![", "](" and ")" of the image syntax, "<img", "src=\"" and     *)
(* "\"" of the img element, the pieces of the URLs, and words.             *)
(***************************************************************************)
\* the atoms that are or hold white space or a quote, and those that may
\* not follow the host in a platform URL
QuoteOrSpace == { " ", "\n", "\"", "'", "src=\"" }
UrlEnd == QuoteOrSpace \cup { "<", ">", "<img" }

\* the match of !\[.*?\]\((.*?)\) that begins at i: the lazy groups take the
\* nearest "](" and the nearest ")" on the line
MdImageAt(md, i) ==
    LET OnLine(a, b) == \A j \in a..b : md[j] # "\n"
        Close(k) == { e \in (k + 1)..Len(md) : md[e] = ")" /\ OnLine(k + 1, e - 1) }
        K == { k \in (i + 1)..Len(md) :
                 md[k] = "](" /\ OnLine(i + 1, k - 1) /\ Close(k) # {} }
    IN  IF md[i] = "![" /\ K # {}
        THEN [ok |-> TRUE, group |-> SubSeq(md, Min(K) + 1, Min(Close(Min(K))) - 1),
              end |-> Min(Close(Min(K)))]
        ELSE [ok |-> FALSE, group |-> << >>, end |-> i]

\* the match of <img[^>]+src="([^"]+)" that begins at i: the greedy [^>]+
\* takes the last src=" before the tag closes
HtmlImgAt(md, i) ==
    LET Quote(k) == { e \in (k + 2)..Len(md) : md[e] = "\"" }
        K == { k \in (i + 2)..Len(md) :
                 /\ md[k] = "src=\""
                 /\ \A j \in (i + 1)..(k - 1) : md[j] # ">"
                 /\ Quote(k) # {}
                 /\ \A j \in (k + 1)..(Min(Quote(k)) - 1) : md[j] \notin { "\"", "src=\"" } }
    IN  IF md[i] = "<img" /\ K # {}
        THEN [ok |-> TRUE, group |-> SubSeq(md, Max(K) + 1, Min(Quote(Max(K))) - 1),
              end |-> Min(Quote(Max(K)))]
        ELSE [ok |-> FALSE, group |-> << >>, end |-> i]

\* the atoms a URL may begin with
HttpsStart == { "https://cdn/i/", "https://cdn/p.png", "https://ci" }

\* how many atoms from position `from` on may belong to a platform URL
RECURSIVE UrlRun(_, _)
UrlRun(md, from) ==
    IF from <= Len(md) /\ md[from] \notin UrlEnd THEN 1 + UrlRun(md, from + 1) ELSE 0

\* the match of https://[^'"\s]+<host>[^\s'"<>]+ that begins at i: the text
\* runs on past the host until white space, a quote or an angle bracket
PlatformUrlAt(md, i, host) ==
    LET K == { k \in (i + 1)..(Len(md) - 1) :
                 /\ md[k] = host
                 /\ \A j \in (i + 1)..(k - 1) : md[j] \notin QuoteOrSpace
                 /\ md[k + 1] \notin UrlEnd }
    IN  IF md[i] \in HttpsStart /\ K # {}
        THEN [ok |-> TRUE, group |-> SubSeq(md, i, Max(K) + UrlRun(md, Max(K) + 1)),
              end |-> Max(K) + UrlRun(md, Max(K) + 1)]
        ELSE [ok |-> FALSE, group |-> << >>, end |-> i]

XiaohongshuAt(md, i) == PlatformUrlAt(md, i, ".xiaohongshu.com")
FeishuAt(md, i) == PlatformUrlAt(md, i, ".feishu.cn")

\* the match of one of the four patterns that begins at i
MatchAt(pattern, md, i) ==
    CASE pattern = "markdown" -> MdImageAt(md, i)
      [] pattern = "html_img" -> HtmlImgAt(md, i)
      [] pattern = "xiaohongshu" -> XiaohongshuAt(md, i)
      [] pattern = "feishu" -> FeishuAt(md, i)

\* re.findall: the groups of the matches, found left to right, none overlapping
RECURSIVE FindAll(_, _, _)
FindAll(pattern, md, i) ==
    IF i > Len(md) THEN << >>
    ELSE IF MatchAt(pattern, md, i).ok
         THEN << MatchAt(pattern, md, i).group >>
              \o FindAll(pattern, md, MatchAt(pattern, md, i).end + 1)
    ELSE FindAll(pattern, md, i + 1)

Range(seq) == { seq[i] : i \in 1..Len(seq) }

\* extract_image_urls before list(set(urls)) puts it in some order
extract_image_urls(markdown) ==
    Range(FindAll("markdown", markdown, 1)) \cup Range(FindAll("html_img", markdown, 1))
    \cup Range(FindAll("xiaohongshu", markdown, 1)) \cup Range(FindAll("feishu", markdown, 1))

\* the orders list(set(urls)) may give
Orders(S) ==
    { f \in [1..Cardinality(S) -> S] : \A i, j \in 1..Cardinality(S) : f[i] = f[j] => i = j }

\* str.replace(old, new): every occurrence, left to right, none overlapping
RECURSIVE Replace(_, _, _)
Replace(text, old, new) ==
    IF Len(old) = 0 \/ Len(text) < Len(old) THEN text
    ELSE IF SubSeq(text, 1, Len(old)) = old
         THEN new \o Replace(Drop(text, Len(old)), old, new)
         ELSE << text[1] >> \o Replace(Tail(text), old, new)

\* the loop over downloaded_images.items(), in insertion order
RECURSIVE ReplaceAll(_, _)
ReplaceAll(markdown, items) ==
    IF Len(items) = 0 THEN markdown
    ELSE ReplaceAll(Replace(markdown, items[1].key, items[1].val), Tail(items))

\* the labels _clean_metadata drops the lines of (source, author, time of
\* publication, reads, likes, favourites, shares, each with its colon), one
\* atom a label
SkipPatterns ==
    { "source:", "author:", "published:", "reads:", "likes:", "favourites:", "shares:" }

_clean_metadata(markdown) ==
    LET lines == Split(markdown, "\n")
        kept  == SelectSeq(lines, LAMBDA line :
                     ~(Len(Strip(line)) > 0 /\ Strip(line)[1] \in SkipPatterns))
    IN  Join(kept, << "\n" >>)

\* the URLs of the images of the markups
Image1 == << "https://cdn/i/", "1" >>
Image10 == << "https://cdn/i/", "1", "0" >>
ImageP == << "https://cdn/p.png" >>
ImageXhs == << "https://ci", ".xiaohongshu.com", "/p.jpg" >>

\* hashlib.md5(url.encode()).hexdigest()[:12]
Md5Hex(url) ==
    CASE url = Image1 -> "c4ca4238a0b9"
      [] url = Image10 -> "d3d9446802a4"
      [] url = ImageP -> "83878c911713"
      [] url = ImageXhs -> "e4da3b7fbbce"
      [] OTHER -> "1679091c5a88"

\* the body of a response with status 200
ResponseBody == << "89", "P", "N", "G", "0D", "0A" >>

\* how a call of download_image may end: a file is written, the status is
\* not 200, the request raises (a timeout among the causes)
DownloadOutcomes == { "saved", "status", "raised" }

\* download_image: the path of the file relative to the media folder, None
\* when the status is not 200 or an exception was caught
download_image(url, outcome) ==
    IF outcome = "saved"
    THEN << "img_", Md5Hex(url), _guess_extension(url, ResponseBody) >>
    ELSE << >>

\* the markups handed to process_content
MarkupPrefix ==
    << "![", "a", "](" >> \o Image1 \o << ")", " ", "![", "b", "](" >> \o Image10 \o << ")" >>
MarkupTwice ==
    << "![", "a", "](" >> \o ImageP \o << ")", "\n", "<img", " ", "src=\"" >> \o ImageP
    \o << "\"", ">" >>
MarkupXhs ==
    << "![", "a", "](" >> \o ImageXhs \o << ")", " ", "text" >>
MarkupMeta ==
    << "author:", "bob", "\n", "![", "a", "](" >> \o ImageP
    \o << ")", " ", "![", "r", "](", "media/r.png", ")" >>
MarkupTwicePrefix ==
    << "![", "a", "](" >> \o Image10 \o << ")", " ", "<img", " ", "src=\"" >> \o Image10
    \o << "\"", ">", " ", "![", "b", "](" >> \o Image1 \o << ")" >>
MarkupPlain == << "hello" >>

Markups ==
    { MarkupPrefix, MarkupTwice, MarkupTwicePrefix, MarkupXhs, MarkupMeta, MarkupPlain }

NoResult == [markdown |-> << >>, images |-> << >>]

InitMedia ==
    /\ mpc = "extract"
    /\ raw_markdown \in Markups
    /\ image_urls = << >>
    /\ imgIdx = 1
    /\ requests = << >>
    /\ downloaded_images = << >>
    /\ processed = NoResult

\* image_urls = extract_image_urls(raw_markdown)
ExtractUrls ==
    /\ mpc = "extract"
    /\ image_urls' \in Orders(extract_image_urls(raw_markdown))
    /\ mpc' = "download"
    /\ UNCHANGED << raw_markdown, imgIdx, requests, downloaded_images, processed >>
    /\ UNCHANGED << fetchVars, wfVars, storeVars, codecVars, extVars, moreVars >>

\* one pass of the loop over image_urls for a URL that starts with "http"
DownloadOne(outcome) ==
    /\ mpc = "download"
    /\ imgIdx <= Len(image_urls)
    /\ LET img_url == image_urls[imgIdx]
           local_path == download_image(img_url, outcome)
       IN  /\ Len(img_url) > 0 /\ img_url[1] \in HttpsStart
           /\ requests' = Append(requests, [url |-> img_url, outcome |-> outcome])
           /\ downloaded_images' =
                 IF Len(local_path) > 0
                 THEN DictSet(downloaded_images, img_url, local_path)
                 ELSE downloaded_images
    /\ imgIdx' = imgIdx + 1
    /\ UNCHANGED << mpc, raw_markdown, image_urls, processed >>
    /\ UNCHANGED << fetchVars, wfVars, storeVars, codecVars, extVars, moreVars >>

\* one pass of the loop for a reference that does not start with "http"
SkipOne ==
    /\ mpc = "download"
    /\ imgIdx <= Len(image_urls)
    /\ ~(Len(image_urls[imgIdx]) > 0 /\ image_urls[imgIdx][1] \in HttpsStart)
    /\ imgIdx' = imgIdx + 1
    /\ UNCHANGED << mpc, raw_markdown, image_urls, requests, downloaded_images, processed >>
    /\ UNCHANGED << fetchVars, wfVars, storeVars, codecVars, extVars, moreVars >>

\* the replacements, _clean_metadata and the result
Rewrite ==
    /\ mpc = "download"
    /\ imgIdx > Len(image_urls)
    /\ processed' =
          [markdown |-> _clean_metadata(ReplaceAll(raw_markdown, downloaded_images)),
           images   |-> [i \in 1..Len(downloaded_images) |-> downloaded_images[i].val]]
    /\ mpc' = "done"
    /\ UNCHANGED << raw_markdown, image_urls, imgIdx, requests, downloaded_images >>
    /\ UNCHANGED << fetchVars, wfVars, storeVars, codecVars, extVars, moreVars >>

NextMedia ==
    \/ ExtractUrls
    \/ \E outcome \in DownloadOutcomes : DownloadOne(outcome)
    \/ SkipOne
    \/ Rewrite

(***************************************************************************)
(* detect_platform as a call (fetchers/platform.py).                       *)
(***************************************************************************)
\* what may stand before a domain name in a host: nothing, a label with its
\* dot, or letters that run into the name (netflix.com, notjd.com)
HostPrefixes == { << >>, << "www." >>, << "mp." >> , << "netfli" >>, << "not" >> }

\* the domain names detect_platform tests for, and two it does not
HostDomains ==
    { "weixin.qq.com", "xiaohongshu.com", "xhslink.com", "zhihu.com", "douyin.com",
      "bilibili.com", "taobao.com", "jd.com", "jd.hk", "weibo.com", "weibo.cn",
      "toutiao.com", "twitter.com", "x.com", "X.COM", "example.com" }

\* what may stand after it: nothing, or the name of another site
HostSuffixes == { << >>, << ".evil.org" >> }

PlatformPaths == { << "/a" >>, << "/", "x.com" >> }

PlatformUrls ==
    { MkUrl(pre \o << d >> \o suf, path) :
        pre \in HostPrefixes, d \in HostDomains, suf \in HostSuffixes,
        path \in PlatformPaths }

NoProfile == PlatformInfo("none", FALSE, "none")

InitPlat ==
    /\ dpUrl \in PlatformUrls
    /\ dpOut = NoProfile

\* platform = detect_platform(url)
DetectPlatform ==
    /\ dpOut = NoProfile
    /\ dpOut' = detect_platform(dpUrl)
    /\ UNCHANGED dpUrl
    /\ UNCHANGED << fetchVars, wfVars, storeVars, codecVars, extVars, mediaVars >>
    /\ UNCHANGED << browserVars, titleVars, headerVars, syncVars, apiVars >>

NextPlat == DetectPlatform

(***************************************************************************)
(* PlaywrightFetcher.fetch step by step (fetchers/__init__.py:129-187).    *)
(* A step runs from one await to the next.                                 *)
(***************************************************************************)
BrowserUrls == FetchUrls

\* the lengths of content["content"]
ContentLens == { 50, 101 }

InitBrowser ==
    /\ bpc = "launch"
    /\ bUrl \in BrowserUrls
    /\ browser = "none"
    /\ page_content = FALSE
    /\ marker0 = FALSE
    /\ verify_btn = "unknown"
    /\ clicks = 0
    /\ waits = 0
    /\ checks = 0
    /\ extracted = FALSE
    /\ bResult = None
    /\ bExc = "none"

\* the components other than the browser tier
NotBrowser ==
    << fetchVars, wfVars, storeVars, codecVars, extVars, mediaVars, platVars, titleVars,
       headerVars, syncVars, apiVars >>

\* browser = await p.chromium.launch(headless=True) ... page = await context.new_page()
Launch ==
    /\ bpc = "launch"
    /\ browser' = "open"
    /\ bpc' = "goto"
    /\ UNCHANGED << bUrl, page_content, marker0, verify_btn, clicks, waits, checks,
                    extracted, bResult, bExc >>
    /\ UNCHANGED NotBrowser

\* await page.goto(url, ...); page_content = await page.content(); the test of line 154
Goto(shown) ==
    /\ bpc = "goto"
    /\ page_content' = shown
    /\ marker0' = shown
    /\ bpc' = IF shown THEN "query" ELSE "extract"
    /\ UNCHANGED << bUrl, browser, verify_btn, clicks, waits, checks, extracted, bResult,
                    bExc >>
    /\ UNCHANGED NotBrowser

\* verify_btn = await page.query_selector(...)
QuerySelector(found) ==
    /\ bpc = "query"
    /\ verify_btn' = IF found THEN "found" ELSE "none"
    /\ bpc' = IF found THEN "click" ELSE "check"
    /\ UNCHANGED << bUrl, browser, page_content, marker0, clicks, waits, checks, extracted,
                    bResult, bExc >>
    /\ UNCHANGED NotBrowser

\* await verify_btn.click()
Click ==
    /\ bpc = "click"
    /\ clicks' = clicks + 1
    /\ bpc' = "wait"
    /\ UNCHANGED << bUrl, browser, page_content, marker0, verify_btn, waits, checks,
                    extracted, bResult, bExc >>
    /\ UNCHANGED NotBrowser

\* await page.wait_for_load_state(...); page_content = await page.content()
WaitAndReread(shown) ==
    /\ bpc = "wait"
    /\ waits' = waits + 1
    /\ page_content' = shown
    /\ bpc' = "check"
    /\ UNCHANGED << bUrl, browser, marker0, verify_btn, clicks, checks, extracted, bResult,
                    bExc >>
    /\ UNCHANGED NotBrowser

\* a tier that tries the recovery again while the marker is shown
StillVerificationPage_Retry ==
    /\ bpc = "check"
    /\ page_content
    /\ checks' = checks + 1
    /\ bpc' = "query"
    /\ UNCHANGED << bUrl, browser, page_content, marker0, verify_btn, clicks, waits,
                    extracted, bResult, bExc >>
    /\ UNCHANGED NotBrowser

\* the test of line 163: await browser.close(); return None
StillVerificationPage ==
    /\ bpc = "check"
    /\ page_content
    /\ checks' = checks + 1
    /\ browser' = "closed"
    /\ bResult' = None
    /\ bpc' = "done"
    /\ UNCHANGED << bUrl, page_content, marker0, verify_btn, clicks, waits, extracted, bExc >>
    /\ UNCHANGED NotBrowser

\* the test of line 163 when the marker is gone
VerificationPassed ==
    /\ bpc = "check"
    /\ ~page_content
    /\ checks' = checks + 1
    /\ bpc' = "extract"
    /\ UNCHANGED << bUrl, browser, page_content, marker0, verify_btn, clicks, waits,
                    extracted, bResult, bExc >>
    /\ UNCHANGED NotBrowser

\* content = await self._extract_..._content(page); await browser.close();
\* the test of line 175 and the return
Extract(len) ==
    /\ bpc = "extract"
    /\ extracted' = TRUE
    /\ browser' = "closed"
    /\ bResult' =
          IF len > MinContentLen
          THEN FetchedContent(bUrl, "playwright", [len |-> len, env |-> 0, verify |-> 0])
          ELSE None
    /\ bpc' = "done"
    /\ UNCHANGED << bUrl, page_content, marker0, verify_btn, clicks, waits, checks, bExc >>
    /\ UNCHANGED NotBrowser

\* an await raises: the context manager ends the browser, the handler of
\* line 185 catches the exception, the call returns None
BrowserRaises(exc) ==
    /\ bpc \in { "launch", "goto", "query", "click", "wait", "extract" }
    /\ Caught(exc)
    /\ bExc' = exc
    /\ browser' = IF browser = "open" THEN "exited" ELSE browser
    /\ extracted' = (extracted \/ bpc = "extract")
    /\ bResult' = None
    /\ bpc' = "done"
    /\ UNCHANGED << bUrl, page_content, marker0, verify_btn, clicks, waits, checks >>
    /\ UNCHANGED NotBrowser

NextBrowser ==
    \/ Launch
    \/ \E shown \in BOOLEAN : Goto(shown)
    \/ \E found \in BOOLEAN : QuerySelector(found)
    \/ Click
    \/ \E shown \in BOOLEAN : WaitAndReread(shown)
    \/ StillVerificationPage
    \/ VerificationPassed
    \/ \E len \in ContentLens : Extract(len)
    \/ \E exc \in Failures : BrowserRaises(exc)

(***************************************************************************)
(* JinaFetcher._extract_title (fetchers/__init__.py:109-123).  Here an     *)
(* atom is one character, but for "Title: " and "http".                    *)
(***************************************************************************)
\* len() of a line
RECURSIVE CharLen(_)
CharLen(line) ==
    IF Len(line) = 0 THEN 0
    ELSE (CASE line[1] = "Title: " -> 7 [] line[1] = "http" -> 4 [] OTHER -> 1)
         + CharLen(Tail(line))

\* title[:200], line[:200]
TitleLimit == 200
\* lines[:10]
TitleLines == 10
\* len(line) > 5
MinLineLen == 5

\* " / X"
PlatformSuffix == << " ", "/", " ", "X" >>

\* the title a "Title: " line gives; empty when it gives none
TitleOfLine(line) ==
    LET stripped == Strip(line)
        title == Strip(Tail(stripped))
        cut == IF EndsWith(title, PlatformSuffix)
               THEN Strip(SubSeq(title, 1, Len(title) - 5))
               ELSE title
    IN  IF Len(stripped) > 0 /\ stripped[1] = "Title: " THEN Take(cut, TitleLimit) ELSE << >>

\* the text of a line the second loop accepts; empty when it does not
TextOfLine(line) ==
    LET stripped == Strip(line)
    IN  IF /\ Len(stripped) > 0
           /\ stripped[1] \notin { "#", "[" }
           /\ CharLen(stripped) > MinLineLen
           /\ ~Contains(<< "http" >>, stripped)
        THEN Take(stripped, TitleLimit)
        ELSE << >>

\* the first of the values that is not empty
RECURSIVE FirstOf(_, _)
FirstOf(values, i) ==
    IF i > Len(values) THEN << >>
    ELSE IF Len(values[i]) > 0 THEN values[i]
    ELSE FirstOf(values, i + 1)

_extract_title(markdown) ==
    LET lines == Take(Split(markdown, "\n"), TitleLines)
        titled == FirstOf([i \in 1..Len(lines) |-> TitleOfLine(lines[i])], 1)
        plain == FirstOf([i \in 1..Len(lines) |-> TextOfLine(lines[i])], 1)
    IN  IF Len(titled) > 0 THEN titled
        ELSE IF Len(plain) > 0 THEN plain
        ELSE << "Untitled" >>

\* what the proxy puts before the title line: nothing, a line of its own,
\* or ten short lines
LeadingLines ==
    { << >>,
      << "U", "R", "L", ":", " ", "u", "\n" >>,
      << "a", "\n", "a", "\n", "a", "\n", "a", "\n", "a", "\n",
         "a", "\n", "a", "\n", "a", "\n", "a", "\n", "a", "\n" >> }

PageNames == { << "H", "i" >>, << "A" >>, << "H", "i", " " >>, << >> }

NameSuffixes == { << >>, PlatformSuffix, << " ", "-", " ", "Y" >> }

LineEnds == { << >>, << " " >>, << "\n", "b", "o", "d", "y", " ", "t", "e", "x", "t" >> }

JinaMarkdowns ==
    { lead \o << "Title: " >> \o name \o suffix \o end :
        lead \in LeadingLines, name \in PageNames, suffix \in NameSuffixes,
        end \in LineEnds }

NoTitle == << "none" >>

InitTitle ==
    /\ etMarkdown \in JinaMarkdowns
    /\ etOut = NoTitle

\* title = self._extract_title(markdown)
ExtractTitle ==
    /\ etOut = NoTitle
    /\ etOut' = _extract_title(etMarkdown)
    /\ UNCHANGED etMarkdown
    /\ UNCHANGED << fetchVars, wfVars, storeVars, codecVars, extVars, mediaVars >>
    /\ UNCHANGED << platVars, browserVars, headerVars, syncVars, apiVars >>

NextTitle == ExtractTitle

(***************************************************************************)
(* A document written by save_to_obsidian into an empty inbox and read     *)
(* back by URLDatabase.get_url (storage/__init__.py, storage/database.py). *)
(***************************************************************************)
\* titles: plain, with an author before a colon, with double quotes within
\* and around, with single quotes around, with an apostrophe
HeaderTitles ==
    { << "N" >>,
      << "Author", " ", "on", " ", "X", ":", " ", "Real", " ", "Title" >>,
      << "Say", " ", "\"", "hi", "\"" >>,
      << "a", " ", "\"", "b", "\"", " ", "c" >>,
      << "\"", "Quoted", "\"", " ", "words" >>,
      << "'", "single", "'" >>,
      << "it", "'", "s" >> }

HeaderStatuses == { << "pending" >>, << "extracted" >>, << "read" >> }

NotRead == << [key |-> "none", val |-> StrVal(<< >>)] >>

InitHeader ==
    /\ hdArgs \in [title : HeaderTitles, url : FetchUrls, status : HeaderStatuses]
    /\ hdText = << >>
    /\ hdData = NotRead

\* the file save_to_obsidian writes when no file holds the URL
WrittenFile(content, status, created) ==
    format_frontmatter(content.title, UrlText(content.url), content.platform_name,
                       created, status, << content.platform_name, << "metis" >> >>)
    \o content.markdown

\* save_to_obsidian(content, status) with the inbox empty
WriteDocument ==
    /\ hdText = << >>
    /\ hdText' = WrittenFile(ProcessedContent(hdArgs.url, hdArgs.title, << "hello" >>),
                             hdArgs.status, << Timestamps[1] >>)
    /\ UNCHANGED << hdArgs, hdData >>
    /\ UNCHANGED << fetchVars, wfVars, storeVars, codecVars, extVars, mediaVars >>
    /\ UNCHANGED << platVars, browserVars, titleVars, syncVars, apiVars >>

\* URLDatabase.get_url for the one file of the inbox: None (empty) when the
\* file does not hold the URL or no header is read
get_url(url, text) ==
    IF Contains(UrlText(url), text) /\ Len(_read_frontmatter(text)) > 0
    THEN DictSet(_read_frontmatter(text), << "file_path" >>, StrVal(<< "path" >>))
    ELSE << >>

\* url_db.get_url(url)
ReadBack ==
    /\ hdText # << >>
    /\ hdData = NotRead
    /\ hdData' = get_url(hdArgs.url, hdText)
    /\ UNCHANGED << hdArgs, hdText >>
    /\ UNCHANGED << fetchVars, wfVars, storeVars, codecVars, extVars, mediaVars >>
    /\ UNCHANGED << platVars, browserVars, titleVars, syncVars, apiVars >>

NextHeader == WriteDocument \/ ReadBack

(***************************************************************************)
(* The CLI command sync (cli/__init__.py:174-193) and the _fetch it calls  *)
(* for each URL (cli/__init__.py:28-86).  A text is here the count of its  *)
(* Latin letters and the count of its Chinese and Japanese characters; a   *)
(* document is its status, its two flags, whether a translation section    *)
(* was appended to it, and its text.                                       *)
(***************************************************************************)
\* is_english_text: more than 0.8 of the letters are Latin
is_english_text(text) ==
    IF text.latin + text.cjk = 0 THEN FALSE
    ELSE 10 * text.latin > 8 * (text.latin + text.cjk)

TextOf(latin, cjk) == [latin |-> latin, cjk |-> cjk]

\* the two texts one after the other
Together(a, b) == TextOf(a.latin + b.latin, a.cjk + b.cjk)

\* the markdown of a page: English, English with some Chinese, Chinese
PageTexts == { TextOf(90, 0), TextOf(90, 20), TextOf(10, 90) }

\* the header format_frontmatter writes: its keys and values, and a title
\* in Latin letters or in Chinese
HeaderTexts == { TextOf(60, 0), TextOf(40, 20) }

\* what ContentFetcher.fetch may return to _fetch
FetchOutcomes ==
    { [kind |-> "none"] } \cup [kind : { "content" }, markdown : PageTexts, header : HeaderTexts]

\* what the loop of _sync takes for processed
ProcessedStatuses == { "extracted", "read", "valuable", "archived" }

NewDocument(text) ==
    [status |-> "extracted", is_english |-> FALSE, has_translation |-> FALSE,
     section |-> FALSE, text |-> text]

StoredDocument(status) ==
    [status |-> status, is_english |-> FALSE, has_translation |-> FALSE,
     section |-> FALSE, text |-> TextOf(60, 0)]

\* the documents of the inbox before the run
Inboxes ==
    { [u \in S |-> StoredDocument(st[u])] :
        S \in SUBSET FetchUrls, st \in [FetchUrls -> { "extracted", "failed" }] }

TargetLangs == { "zh", "ja" }

InitSync ==
    /\ spc = "loop"
    /\ urls \in Orders(FetchUrls)
    /\ syncIdx = 1
    /\ inbox \in Inboxes
    /\ attempted = << >>
    /\ skipped = << >>
    /\ target_lang \in TargetLangs

\* _find_url_file, get_content_path: the documents that hold the text of the URL
Located(docs, url) == { d \in DOMAIN docs : Contains(UrlText(url), UrlText(d)) }

\* the inbox with some fields of a document set
SetFields(docs, d, fields) ==
    [x \in DOMAIN docs |->
        IF x = d THEN [k \in DOMAIN docs[x] |->
                          IF k \in DOMAIN fields THEN fields[k] ELSE docs[x][k]]
        ELSE docs[x]]

\* url_db.update_status, mark_english, mark_translated: no document, no change
Mark(docs, url, fields) ==
    IF Located(docs, url) = {} THEN { docs }
    ELSE { SetFields(docs, d, fields) : d \in Located(docs, url) }

\* save_to_obsidian(processed, status="extracted", use_inbox=True): the
\* inbox after it and the document it returns the path of
SaveToInbox(docs, url, text) ==
    IF Located(docs, url) = {}
    THEN { [docs |-> (url :> NewDocument(text)) @@ docs, path |-> url] }
    ELSE { [docs |-> SetFields(docs, d, [status |-> "extracted"]), path |-> d] :
             d \in Located(docs, url) }

\* process_with_translation(text of the file, path, target_lang): True, with
\* the section appended, when the text is English and the target is zh
process_with_translation(docs, path, lang) ==
    IF is_english_text(docs[path].text) /\ lang = "zh"
    THEN SetFields(docs, path, [section |-> TRUE])
    ELSE docs

\* lines 72-80 of _fetch: an unconditional mark_translated after the
\* translation, as the code has it
Translated(docs, url, path, lang) ==
    UNION { Mark(process_with_translation(d1, path, lang), url, [has_translation |-> TRUE]) :
              d1 \in Mark(docs, url, [is_english |-> TRUE]) }

\* _fetch(url, save=True, use_inbox=True) when fetch returned content: the
\* inboxes it may leave
FetchSaves(docs, url, content) ==
    UNION { IF is_english_text(content.markdown)
            THEN Translated(sv.docs, url, sv.path, target_lang)
            ELSE { sv.docs } :
              sv \in SaveToInbox(docs, url, Together(content.header, content.markdown)) }

\* the components other than the sync run
NotSync ==
    << fetchVars, wfVars, storeVars, codecVars, extVars, mediaVars, platVars, browserVars,
       titleVars, headerVars, apiVars >>

\* the loop passes over a URL whose document is processed
SyncSkip ==
    /\ spc = "loop"
    /\ syncIdx <= Len(urls)
    /\ \E d \in Located(inbox, urls[syncIdx]) : inbox[d].status \in ProcessedStatuses
    /\ skipped' = Append(skipped, urls[syncIdx])
    /\ syncIdx' = syncIdx + 1
    /\ UNCHANGED << spc, urls, inbox, attempted, target_lang >>
    /\ UNCHANGED NotSync

\* await _fetch(url, save=True, use_inbox=True): content is saved, or no
\* tier gave content and typer.Exit(1) is raised, which nothing in _sync catches
SyncFetch(content) ==
    /\ spc = "loop"
    /\ syncIdx <= Len(urls)
    /\ \/ Located(inbox, urls[syncIdx]) = {}
       \/ \E d \in Located(inbox, urls[syncIdx]) : inbox[d].status \notin ProcessedStatuses
    /\ attempted' = Append(attempted, urls[syncIdx])
    /\ IF content.kind = "none"
       THEN /\ inbox' \in Mark(inbox, urls[syncIdx], [status |-> "failed"])
            /\ spc' = "exited"
            /\ UNCHANGED syncIdx
       ELSE /\ inbox' \in FetchSaves(inbox, urls[syncIdx], content)
            /\ syncIdx' = syncIdx + 1
            /\ UNCHANGED spc
    /\ UNCHANGED << urls, skipped, target_lang >>
    /\ UNCHANGED NotSync

\* the loop is through: "Sync complete!"
SyncComplete ==
    /\ spc = "loop"
    /\ syncIdx > Len(urls)
    /\ spc' = "complete"
    /\ UNCHANGED << urls, syncIdx, inbox, attempted, skipped, target_lang >>
    /\ UNCHANGED NotSync

NextSync ==
    \/ SyncSkip
    \/ \E content \in FetchOutcomes : SyncFetch(content)
    \/ SyncComplete

(***************************************************************************)
(* Two calls of the API handler fetch_url (api/__init__.py:47-97) for one  *)
(* URL, as tasks of one event loop.  A task gives the loop up at an await  *)
(* and nowhere else: at `await fetcher.fetch` and `await process_content`. *)
(* save_to_obsidian awaits nothing; its test for an existing file and its  *)
(* write are two steps of the task that holds the loop.                    *)
(***************************************************************************)
Pipelines == { "p1", "p2" }

\* the titles the tiers may give for one page
ApiTitles == { << "N" >>, << "N", "-", "site" >> }

\* the inbox before the requests: empty, or with a document of another URL
ApiInboxes ==
    { << >>, (<< "other" >> :> [url |-> UrlWechat, status |-> << "extracted" >>]) }

InitApi ==
    /\ apc = [p \in Pipelines |-> "fetch"]
    /\ aUrl \in StoreUrls
    /\ aTitle = [p \in Pipelines |-> << >>]
    /\ aExisting = [p \in Pipelines |-> {}]
    /\ running = "idle"
    /\ apiInbox \in ApiInboxes

\* the components other than the two requests
NotApi ==
    << fetchVars, wfVars, storeVars, codecVars, extVars, mediaVars, platVars, browserVars,
       titleVars, headerVars, syncVars >>

\* get_content_path: the files whose text holds the URL
ApiLocated(url) ==
    { f \in DOMAIN apiInbox : Contains(UrlText(url), UrlText(apiInbox[f].url)) }

\* `await fetcher.fetch(request.url)` returns None: update_status(url,
\* "failed") and the response
ApiFetchFails(p) ==
    /\ apc[p] = "fetch"
    /\ running = "idle"
    /\ \/ ApiLocated(aUrl) = {} /\ UNCHANGED apiInbox
       \/ \E f \in ApiLocated(aUrl) :
             apiInbox' = [apiInbox EXCEPT ![f].status = << "failed" >>]
    /\ apc' = [apc EXCEPT ![p] = "done"]
    /\ UNCHANGED << aUrl, aTitle, aExisting, running >>
    /\ UNCHANGED NotApi

\* it returns content: on to `await process_content(...)`
ApiFetched(p, title) ==
    /\ apc[p] = "fetch"
    /\ running = "idle"
    /\ aTitle' = [aTitle EXCEPT ![p] = title]
    /\ apc' = [apc EXCEPT ![p] = "process"]
    /\ UNCHANGED << aUrl, aExisting, running, apiInbox >>
    /\ UNCHANGED NotApi

\* a handler whose save gives the loop up between its test and its write
ApiProcessed_Yielding(p) ==
    /\ apc[p] = "process"
    /\ running = "idle"
    /\ apc' = [apc EXCEPT ![p] = "check"]
    /\ UNCHANGED << aUrl, aTitle, aExisting, running, apiInbox >>
    /\ UNCHANGED NotApi

\* process_content returns; the task goes on into save_to_obsidian and
\* holds the loop until it returns its response
ApiProcessed(p) ==
    /\ apc[p] = "process"
    /\ running = "idle"
    /\ apc' = [apc EXCEPT ![p] = "check"]
    /\ running' = p
    /\ UNCHANGED << aUrl, aTitle, aExisting, apiInbox >>
    /\ UNCHANGED NotApi

\* the task may take a step inside save_to_obsidian
MayRun(p) == running \in { "idle", p }

\* aExisting = get_content_path(content.url)
ApiCheck(p) ==
    /\ apc[p] = "check"
    /\ MayRun(p)
    /\ aExisting' = [aExisting EXCEPT ![p] = ApiLocated(aUrl)]
    /\ apc' = [apc EXCEPT ![p] = "write"]
    /\ UNCHANGED << aUrl, aTitle, running, apiInbox >>
    /\ UNCHANGED NotApi

\* the file named after the title
ApiFile(title) == Take(_sanitize_filename(title), FilenameLimit)

\* the rest of save_to_obsidian, and the response: the status of the file
\* found is set, or a new file is written
ApiWrite(p) ==
    /\ apc[p] = "write"
    /\ MayRun(p)
    /\ IF aExisting[p] # {}
       THEN \E f \in aExisting[p] :
               apiInbox' = [apiInbox EXCEPT ![f].status = << "extracted" >>]
       ELSE apiInbox' =
               (ApiFile(aTitle[p]) :> [url |-> aUrl, status |-> << "extracted" >>])
               @@ apiInbox
    /\ apc' = [apc EXCEPT ![p] = "done"]
    /\ running' = "idle"
    /\ UNCHANGED << aUrl, aTitle, aExisting >>
    /\ UNCHANGED NotApi

NextApi ==
    \/ \E p \in Pipelines : ApiFetchFails(p)
    \/ \E p \in Pipelines, title \in ApiTitles : ApiFetched(p, title)
    \/ \E p \in Pipelines : ApiProcessed(p)
    \/ \E p \in Pipelines : ApiCheck(p)
    \/ \E p \in Pipelines : ApiWrite(p)

(***************************************************************************)
(* The specifications: one per component, the other components at rest.    *)
(***************************************************************************)
\* no fetch is running and no credential is configured (the default)
RestFetch == InitFetch /\ apiKey = FALSE

\* no record is being transitioned
RestWorkflow == InitWorkflow /\ wfRec.status = "pending"

\* the vault holds no document
RestStore == InitStore

\* no document is under update
RestCodec == InitCodec /\ doc = DocWritten

\* no extension is being guessed
RestExt ==
    /\ extUrl = << "https://cdn/a" >>
    /\ extContent = << >>
    /\ extOut = "none"

\* no markup is being processed
RestMedia == InitMedia /\ raw_markdown = MarkupPlain

\* no URL is being classified
RestPlat == InitPlat /\ dpUrl = UrlArticle

\* no browser session is running
RestBrowser == InitBrowser /\ bUrl = UrlArticle

\* no title is being extracted
RestTitle == InitTitle /\ etMarkdown = << "Title: " >>

\* no document is being written and read back
RestHeader ==
    /\ InitHeader
    /\ hdArgs = [title |-> << "N" >>, url |-> UrlArticle, status |-> << "pending" >>]

\* no sync is running
RestSync ==
    /\ InitSync
    /\ urls = << UrlArticle, UrlWechat, UrlTweet >>
    /\ inbox = << >>
    /\ target_lang = "zh"

\* no request is being served
RestApi == InitApi /\ aUrl = UrlArticle /\ apiInbox = << >>

RestMore == RestPlat /\ RestBrowser /\ RestTitle /\ RestHeader /\ RestSync /\ RestApi

RestPure == RestCodec /\ RestExt /\ RestMedia /\ RestMore

FetchInit == InitFetch /\ RestWorkflow /\ RestStore /\ RestPure

SpecFetch == FetchInit /\ [][NextFetch]_vars

WorkflowInit == InitWorkflow /\ RestFetch /\ RestStore /\ RestPure

SpecWorkflow == WorkflowInit /\ [][NextWorkflow]_vars

Init == InitStore /\ RestFetch /\ RestWorkflow /\ RestPure

Spec == Init /\ [][Next]_vars

\* a caller that only saves, and notes each call
NextSave ==
    \E u \in StoreUrls, t \in Titles, b \in Bodies, st \in SaveStatuses,
       use_inbox \in BOOLEAN :
       SaveCall(ProcessedContent(u, t, b), st, use_inbox)

SpecSave == Init /\ [][NextSave]_vars

CodecInit ==
    InitCodec /\ RestFetch /\ RestWorkflow /\ RestStore /\ RestExt /\ RestMedia /\ RestMore

ExtInit ==
    InitExt /\ RestFetch /\ RestWorkflow /\ RestStore /\ RestCodec /\ RestMedia /\ RestMore

MediaInit ==
    InitMedia /\ RestFetch /\ RestWorkflow /\ RestStore /\ RestCodec /\ RestExt /\ RestMore

SpecMedia == MediaInit /\ [][NextMedia]_vars

SpecExt == ExtInit /\ [][NextExt]_vars

PlatInit ==
    /\ InitPlat /\ RestFetch /\ RestWorkflow /\ RestStore /\ RestCodec /\ RestExt /\ RestMedia
    /\ RestBrowser /\ RestTitle /\ RestHeader /\ RestSync /\ RestApi

SpecPlat == PlatInit /\ [][NextPlat]_vars

BrowserInit ==
    /\ InitBrowser /\ RestFetch /\ RestWorkflow /\ RestStore /\ RestCodec /\ RestExt
    /\ RestMedia /\ RestPlat /\ RestTitle /\ RestHeader /\ RestSync /\ RestApi

SpecBrowser == BrowserInit /\ [][NextBrowser]_vars

TitleInit ==
    /\ InitTitle /\ RestFetch /\ RestWorkflow /\ RestStore /\ RestCodec /\ RestExt
    /\ RestMedia /\ RestPlat /\ RestBrowser /\ RestHeader /\ RestSync /\ RestApi

SpecTitle == TitleInit /\ [][NextTitle]_vars

HeaderInit ==
    /\ InitHeader /\ RestFetch /\ RestWorkflow /\ RestStore /\ RestCodec /\ RestExt
    /\ RestMedia /\ RestPlat /\ RestBrowser /\ RestTitle /\ RestSync /\ RestApi

SpecHeader == HeaderInit /\ [][NextHeader]_vars

SyncInit ==
    /\ InitSync /\ RestFetch /\ RestWorkflow /\ RestStore /\ RestCodec /\ RestExt
    /\ RestMedia /\ RestPlat /\ RestBrowser /\ RestTitle /\ RestHeader /\ RestApi

SpecSync == SyncInit /\ [][NextSync]_vars

ApiInit ==
    /\ InitApi /\ RestFetch /\ RestWorkflow /\ RestStore /\ RestCodec /\ RestExt
    /\ RestMedia /\ RestPlat /\ RestBrowser /\ RestTitle /\ RestHeader /\ RestSync

SpecApi == ApiInit /\ [][NextApi]_vars

SpecCodec == CodecInit /\ [][NextCodec]_vars

(***************************************************************************)
(* Claims about ContentFetcher.fetch, checked under SpecFetch.             *)
(***************************************************************************)
\* the declared order of the tiers
DeclaredOrder == << "firecrawl", "jina", "playwright" >>

\* the attempts from position k + 1 on follow the declared order, each one
\* started only after the one before it completed with none
FollowsDeclaredOrder(k) ==
    /\ Len(attempts) <= k + 3
    /\ \A i \in (k + 1)..Len(attempts) :
          /\ attempts[i].tier = DeclaredOrder[i - k]
          /\ attempts[i].phase = "loop"
          /\ i < Len(attempts) => attempts[i].out = "none"

\* fetch returns the content of the tier that returned content, which is
\* the last one attempted
ReturnsFirstContent ==
    /\ \A i \in 1..Len(attempts) :
          attempts[i].out = "content" =>
              /\ i = Len(attempts)
              /\ fpc = "returned"
              /\ fResult # None
              /\ fResult.tier = attempts[i].tier
              /\ fResult.url = fUrl
    /\ (fpc = "returned" /\ fResult # None) =>
          /\ Len(attempts) > 0
          /\ attempts[Len(attempts)].out = "content"

C2_WechatBrowserFirst ==
    (fpc # "idle" /\ detect_platform(fUrl).name = "wechat") =>
        /\ fpc = "priority" => Len(attempts) <= 1
        /\ Len(attempts) >= 1 =>
              /\ attempts[1].tier = "playwright"
              /\ attempts[1].phase = "priority"
        /\ Len(attempts) >= 2 => attempts[1].out = "none"
        /\ FollowsDeclaredOrder(1)
        /\ ReturnsFirstContent
        /\ fpc = "returned" => Len(attempts) >= 1

\* a fetch of a wechat URL whose first browser attempt returned none and
\* which went through the whole declared order
C2_Witness ==
    /\ fpc = "returned"
    /\ detect_platform(fUrl).name = "wechat"
    /\ Len(attempts) = 4
    /\ attempts[1].out = "none"
    /\ attempts[4].out = "content"

\* C3: fetch returns none exactly when every tier it attempted returned
\* none, and no failure inside a tier reaches the caller of the tier or of
\* fetch as an exception.
C3_NoneIffAllNoneAndNoRaise ==
    /\ fRaised = "none"
    /\ fpc # "raised"
    /\ \A i \in 1..Len(attempts) : attempts[i].out # "raised"
    /\ fpc = "returned" =>
          (fResult = None <=> \A i \in 1..Len(attempts) : attempts[i].out = "none")

\* a fetch that returned none after a tier met a missing library and
\* another met a timeout
C3_Witness ==
    /\ fpc = "returned"
    /\ fResult = None
    /\ \E i \in 1..Len(attempts) : attempts[i].exc = "missing_library"
    /\ \E i \in 1..Len(attempts) : attempts[i].exc = "timeout"

(***************************************************************************)
(* Claims about the lifecycle state machine, checked under SpecWorkflow.   *)
(***************************************************************************)
\* the lifecycle graph as the specification draws it
AllowedSuccessors(st) ==
    CASE st = "pending"   -> {"extracted"}
      [] st = "extracted" -> {"read"}
      [] st = "read"      -> {"valuable", "archived"}
      [] st = "valuable"  -> {"creating", "knowledge_base"}
      [] OTHER            -> {}

\* C9: transition_record succeeds exactly when the target is an allowed
\* successor of the record's status, and then the record's status is the
\* target; otherwise it fails with the invalid-transition error and the
\* record's status and timestamps are as before the call.
C9_TransitionExactlyWhenAllowed ==
    wfLast.outcome # "none" =>
        IF wfLast.target \in AllowedSuccessors(wfLast.before.status)
        THEN /\ wfLast.outcome = "ok"
             /\ wfRec.status = wfLast.target
        ELSE /\ wfLast.outcome = "ValueError"
             /\ wfRec = wfLast.before

\* a record that was read and stamped, then asked to go back to pending
C9_Witness ==
    /\ wfLast.outcome = "ValueError"
    /\ wfLast.before.status = "read"
    /\ wfLast.target = "pending"
    /\ wfRec.status = "read"
    /\ wfRec.read_at # 0

\* C10: the lifecycle graph has no cycles: a record never re-enters a status
\* it held before, no transition succeeds from archived, creating or
\* knowledge_base, and a record that starts at pending makes at most 4
\* transitions.
C10_LifecycleAcyclic ==
    /\ \A i, j \in 1..Len(wfHistory) : wfHistory[i] = wfHistory[j] => i = j
    /\ wfLast.outcome = "ok" =>
          wfLast.before.status \notin {"archived", "creating", "knowledge_base"}
    /\ wfHistory[1] = "pending" => Len(wfHistory) - 1 <= 4

\* a record taken from pending through the longest path of the graph
C10_Witness ==
    wfHistory = << "pending", "extracted", "read", "valuable", "creating" >>

(***************************************************************************)
(* Claims about the document store.                                        *)
(***************************************************************************)
\* the value of a string field of the header of a document, << >> if the
\* header has no such field
HeaderField(text, key) ==
    LET h == _read_frontmatter(text)
    IN  IF DictHas(h, << key >>) /\ DictGet(h, << key >>).t = "str"
        THEN DictGet(h, << key >>).v
        ELSE << >>

DocUrl(text) == HeaderField(text, "url")
DocStatus(text) == HeaderField(text, "status")

\* the body of a document: all that follows the line that closes the header
DocBody(text) == Drop(text, FrontmatterMatch(text).end)

\* the header of a document without its status field
RECURSIVE WithoutKey(_, _)
WithoutKey(d, k) ==
    IF Len(d) = 0 THEN << >>
    ELSE (IF d[1].key = k THEN << >> ELSE << d[1] >>) \o WithoutKey(Tail(d), k)

\* the documents of a folder whose header URL is the given text
DocsFor(fs, dir, urltext) ==
    { p \in DOMAIN fs : p.dir = dir /\ DocUrl(fs[p]) = urltext }

\* C4: after any sequence of save_to_obsidian calls, with either value of
\* use_inbox, the folder the documents are written to holds for every URL
\* at most one document whose header url field is that URL.
C4_OneDocumentPerUrl ==
    \A dir \in {InboxDir, VaultDir} : \A u \in StoreUrls :
        Cardinality(DocsFor(files, dir, UrlText(u))) <= 1

\* C5: a document for URL u, once in the collection, stays: after any
\* create or status update the collection still holds a document whose
\* header URL is u, with the same body.
C5_DocumentsPersist ==
    [][ \A p \in DOMAIN files :
            DocUrl(files[p]) # << >> =>
                \E q \in DocsFor(files', p.dir, DocUrl(files[p])) :
                    DocBody(files'[q]) = DocBody(files[p]) ]_vars

\* C6: two calls of save_to_obsidian with identical content for the same
\* URL, with status s1 and then s2, leave exactly one document for that URL
\* on disk, with header status s2 and the body and the other header fields
\* written by the first call; the second call returns the path the first
\* returned.
C6_SaveTwiceIsOneDocument ==
    [][ ( /\ last.op = "save"
          /\ last'.op = "save"
          /\ last'.content = last.content
          /\ last'.use_inbox = last.use_inbox ) =>
        LET u == UrlText(last.content.url)
        IN  /\ ret' = ret
            /\ Cardinality({ p \in DOMAIN files' : DocUrl(files'[p]) = u }) = 1
            /\ DocUrl(files'[ret']) = u
            /\ DocStatus(files'[ret']) = last'.status
            /\ DocBody(files'[ret']) = DocBody(files[ret])
            /\ WithoutKey(_read_frontmatter(files'[ret']), << "status" >>)
                 = WithoutKey(_read_frontmatter(files[ret]), << "status" >>) ]_vars

\* the allowed successors of a status written as header text
AllowedSuccessorTexts(st) ==
    IF Len(st) = 1 THEN { << x >> : x \in AllowedSuccessors(st[1]) } ELSE {}

\* C7: every change the store makes to the status in the header of a
\* document moves it to an allowed successor in the lifecycle graph; a
\* request for any other status leaves the status as it was.
C7_StatusChangesFollowLifecycle ==
    [][ \A p \in (DOMAIN files) \cap (DOMAIN files') :
            ( /\ DocUrl(files'[p]) = DocUrl(files[p])
              /\ DocStatus(files'[p]) # DocStatus(files[p]) ) =>
                DocStatus(files'[p]) \in AllowedSuccessorTexts(DocStatus(files[p])) ]_vars

\* the header texts of a set of statuses
StatusTexts(S) == { << x >> : x \in S }

\* C8 as stated: the status in the header of every document is one of the
\* seven lifecycle statuses.
C8_StatusIsLifecycleStatus ==
    \A p \in DOMAIN files : DocStatus(files[p]) \in StatusTexts(ContentStatus)

\* C8 as amended: the status in the header of every document is one of the
\* seven lifecycle statuses or failed.
C8_StatusIsLifecycleOrFailed ==
    \A p \in DOMAIN files :
        DocStatus(files[p]) \in StatusTexts(ContentStatus \cup {"failed"})

\* a stored document whose re-fetch yielded nothing
C8_Witness ==
    \E p \in DOMAIN files :
        /\ DocStatus(files[p]) = << "failed" >>
        /\ HeaderField(files[p], "failed_at") # << >>

(***************************************************************************)
(* Claims about the header codec, checked under SpecCodec.                 *)
(***************************************************************************)
\* the lines of a document
LinesOf(content) == Split(content, "\n")

\* the document begins with a delimiter line and a later line is identical
\* to it: the header is the text between the two
HasHeader(content) ==
    LET lines == LinesOf(content)
    IN  /\ Len(lines) > 1
        /\ lines[1] = << "---" >>
        /\ \E i \in 2..Len(lines) : lines[i] = << "---" >>

\* the line that closes the header: the first delimiter line after the first
ClosingDelimiter(content) ==
    LET lines == LinesOf(content)
    IN  CHOOSE i \in 2..Len(lines) :
            /\ lines[i] = << "---" >>
            /\ \A j \in 2..(i - 1) : lines[j] # << "---" >>

\* every byte after the line that closes the header
BodyAfterHeader(content) ==
    LET lines == LinesOf(content)
    IN  Join(SubSeq(lines, ClosingDelimiter(content) + 1, Len(lines)), << "\n" >>)

\* C11: for every document with a well-formed header, each of the two
\* update paths leaves a document with a header and with the same body,
\* every byte after the line that closes the header.
C11_UpdateKeepsBody ==
    (codecOp.name # "none" /\ HasHeader(docBefore)) =>
        /\ HasHeader(doc)
        /\ BodyAfterHeader(doc) = BodyAfterHeader(docBefore)

\* a supplied value as the header holds it: a boolean in lower case
Held(val) ==
    IF val.t = "bool" THEN StrVal(<< IF val.v THEN "true" ELSE "false" >>) ELSE val

\* C12: _write_frontmatter_update changes only the supplied fields: the keys
\* of the header before the update are the first keys after it, in the same
\* order; a key that is not supplied parses to the value it had; a supplied
\* key holds the supplied value; the new keys follow in the order supplied.
C12_UpdateChangesOnlySupplied ==
    (codecOp.name = "write" /\ HasHeader(docBefore)) =>
        LET before == _read_frontmatter(docBefore)
            after  == _read_frontmatter(doc)
            upd    == codecOp.updates
            added  == SelectSeq(upd, LAMBDA e : ~DictHas(before, e.key))
        IN  /\ Len(after) = Len(before) + Len(added)
            /\ \A i \in 1..Len(before) :
                  /\ after[i].key = before[i].key
                  /\ ~DictHas(upd, before[i].key) => after[i].val = before[i].val
            /\ \A i \in 1..Len(added) : after[Len(before) + i].key = added[i].key
            /\ \A i \in 1..Len(upd) :
                  /\ DictHas(after, upd[i].key)
                  /\ DictGet(after, upd[i].key) = Held(upd[i].val)

\* C13: parsing the header that the serializer of _write_frontmatter_update
\* writes for a mapping of string, boolean and list values gives that
\* mapping back, every value with its type.
C13_CodecRoundTrip ==
    (codecOp.name = "write" /\ FrontmatterMatch(docBefore).ok) =>
        LET fields == DictUpdate(_read_frontmatter(docBefore), codecOp.updates)
        IN  _read_frontmatter(SerializeFrontmatter(fields)) = fields

\* C14: a document that does not begin with the delimiter line, or whose
\* header is closed by no delimiter line, is left as it was by both update
\* paths.
C14_NoHeaderNoWrite ==
    (codecOp.name # "none" /\ ~HasHeader(docBefore)) => doc = docBefore

(***************************************************************************)
(* Claims about locate and about a fetch that yields nothing, checked      *)
(* under Spec.                                                             *)
(***************************************************************************)
\* C15: locate (get_content_path, URLDatabase._find_url_file) returns none
\* when no document of the folder it scans has the given URL in its header,
\* and never returns a document whose header URL is another URL.
C15_LocateByHeaderUrl ==
    \A u \in StoreUrls :
        /\ DocsFor(files, InboxDir, UrlText(u)) = {} => FilesContaining(u) = {}
        /\ \A p \in FilesContaining(u) : DocUrl(files[p]) = UrlText(u)

\* a step of the fetch pipeline in which every tier returned none
FailedFetchStep == \E u \in StoreUrls : fetch_failed(u)

\* C16 as stated: a fetch for which every tier returns none creates no
\* document and leaves every document as it was.
C16_FailedFetchChangesNothing ==
    [][ FailedFetchStep => files' = files ]_vars

\* the documents a step changes
Changed == { p \in DOMAIN files : p \in DOMAIN files' /\ files'[p] # files[p] }

\* C16 as amended: a fetch for which every tier returns none creates no
\* document and removes none; it changes at most one document, one whose
\* text contains the URL, and what it writes there is the status failed
\* and the time of the failure.
C16_FailedFetchOnlyMarksFailed ==
    [][ \A u \in StoreUrls : fetch_failed(u) =>
            /\ DOMAIN files' = DOMAIN files
            /\ Cardinality(Changed) <= 1
            /\ \A p \in Changed :
                  /\ p \in FilesContaining(u)
                  /\ DocStatus(files'[p]) = << "failed" >>
                  /\ HeaderField(files'[p], "failed_at") # << >>
                  /\ DocUrl(files'[p]) = DocUrl(files[p])
                  /\ DocBody(files'[p]) = DocBody(files[p]) ]_vars

\* a failed fetch has marked the stored document it found for its URL
C16_Witness ==
    /\ ret = NoPath
    /\ \E p \in DOMAIN files :
          /\ p.dir = InboxDir
          /\ DocUrl(files[p]) \in { UrlText(u) : u \in StoreUrls }
          /\ DocStatus(files[p]) = << "failed" >>

(***************************************************************************)
(* Claims about _guess_extension, checked under SpecExt.                   *)
(***************************************************************************)
\* the extension of the image format whose signature the content begins
\* with, "none" when it begins with no signature
SignatureOf(content) ==
    IF StartsWith(content, << "FF", "D8", "FF" >>) THEN ".jpg"
    ELSE IF StartsWith(content, << "89", "P", "N", "G" >>) THEN ".png"
    ELSE IF \/ StartsWith(content, << "G", "I", "F", "8", "9", "a" >>)
            \/ StartsWith(content, << "G", "I", "F", "8", "7", "a" >>) THEN ".gif"
    ELSE IF /\ StartsWith(content, << "R", "I", "F", "F" >>)
            /\ Len(content) >= 12
            /\ SubSeq(content, 9, 12) = << "W", "E", "B", "P" >> THEN ".webp"
    ELSE "none"

\* the extensions the URL names
NamedIn(url) ==
    LET u == Lower(url)
    IN  (IF Contains(<< ".jpg" >>, u) \/ Contains(<< ".jpeg" >>, u) THEN {".jpg"} ELSE {})
        \cup (IF Contains(<< ".png" >>, u) THEN {".png"} ELSE {})
        \cup (IF Contains(<< ".gif" >>, u) THEN {".gif"} ELSE {})
        \cup (IF Contains(<< ".webp" >>, u) THEN {".webp"} ELSE {})

\* C20: _guess_extension decides by the signature the content begins with,
\* whatever the length of the content and the suffix of the URL; content
\* with no signature gets the extension the URL names, and .jpg when the
\* URL names none.
C20_SignatureDecidesExtension ==
    extOut # "none" =>
        IF SignatureOf(extContent) # "none" THEN extOut = SignatureOf(extContent)
        ELSE IF NamedIn(extUrl) # {} THEN extOut \in NamedIn(extUrl)
        ELSE extOut = ".jpg"

(***************************************************************************)
(* Claims about process_content, checked under SpecMedia.                  *)
(***************************************************************************)
\* the targets of the references of a markup, in the order they stand in
\* it: what the image syntax has between its parentheses and what the img
\* element has as its src
RECURSIVE References(_, _)
References(md, i) ==
    IF i > Len(md) THEN << >>
    ELSE IF MdImageAt(md, i).ok
         THEN << MdImageAt(md, i).group >> \o References(md, MdImageAt(md, i).end + 1)
    ELSE IF HtmlImgAt(md, i).ok
         THEN << HtmlImgAt(md, i).group >> \o References(md, HtmlImgAt(md, i).end + 1)
    ELSE References(md, i + 1)

\* the references of the markup handed in, less the lines _clean_metadata
\* drops, and those of the markup handed back
RefsBefore == References(_clean_metadata(raw_markdown), 1)
RefsAfter == References(processed.markdown, 1)

\* the URLs whose download wrote a file, and those whose download failed
Saved == { requests[k].url : k \in { j \in 1..Len(requests) : requests[j].outcome = "saved" } }
Failed == { requests[k].url : k \in { j \in 1..Len(requests) : requests[j].outcome # "saved" } }

\* the relative path of the file of a downloaded URL
LocalPath(url) == download_image(url, "saved")

\* the i-th reference now is the local path of the URL it was
Localized(i) == i <= Len(RefsAfter) /\ RefsAfter[i] = LocalPath(RefsBefore[i])

\* C17: after process_content every reference to a downloaded URL is the
\* local path of that URL, also when one downloaded URL begins another; no
\* reference is part local path and part URL.
C17_DownloadedReferencesLocalized ==
    mpc = "done" =>
        /\ Len(RefsAfter) = Len(RefsBefore)
        /\ \A i \in 1..Len(RefsBefore) : RefsBefore[i] \in Saved => Localized(i)

\* what the platform patterns find of a URL: the URL and what follows it up
\* to white space, a quote or an angle bracket
PlatformFinds(url) ==
    { g \in Range(FindAll("xiaohongshu", raw_markdown, 1))
             \cup Range(FindAll("feishu", raw_markdown, 1)) : StartsWith(g, url) }

\* the URL is referenced more than once, or a platform pattern finds it too
FoundMoreThanOnce(url) ==
    \/ Cardinality({ i \in 1..Len(RefsBefore) : RefsBefore[i] = url }) > 1
    \/ PlatformFinds(url) # {}

\* the requests made for a URL
DownloadsOf(url) ==
    { k \in 1..Len(requests) : requests[k].url \in { url } \cup PlatformFinds(url) }

\* C18: a URL that more than one scan pattern finds, or that the markup
\* holds more than once, is downloaded exactly once, and all its references
\* become the same local path.
C18_FoundTwiceDownloadedOnce ==
    mpc = "done" =>
        \A url \in Range(RefsBefore) :
            (FoundMoreThanOnce(url) /\ url[1] \in HttpsStart) =>
                /\ Cardinality(DownloadsOf(url)) = 1
                /\ url \in Saved =>
                      \A i \in 1..Len(RefsBefore) : RefsBefore[i] = url => Localized(i)

\* C19: a download that fails does not end process_content: the references
\* to its URL stay as they were, its path is not among the images, and every
\* URL whose download succeeds is localized, in whatever order the URLs are
\* taken.
C19_FailedDownloadSkipped ==
    mpc = "done" =>
        /\ Len(RefsAfter) = Len(RefsBefore)
        /\ \A i \in 1..Len(RefsBefore) :
              /\ RefsBefore[i] \in Failed => RefsAfter[i] = RefsBefore[i]
              /\ RefsBefore[i] \in Saved => Localized(i)
        /\ \A url \in Failed : LocalPath(url) \notin Range(processed.images)
        /\ \A url \in Saved : LocalPath(url) \in Range(processed.images)

(***************************************************************************)
(* Claims about detect_platform, checked under SpecPlat.                   *)
(***************************************************************************)
\* the domains of each platform, as the claim lists them
PlatformDomains ==
    [ wechat      |-> { << "mp.", "weixin.qq.com" >>, << "weixin.qq.com" >> },
      xiaohongshu |-> { << "xiaohongshu.com" >>, << "xhslink.com" >> },
      zhihu       |-> { << "zhihu.com" >> },
      douyin      |-> { << "douyin.com" >> },
      bilibili    |-> { << "bilibili.com" >> },
      taobao      |-> { << "taobao.com" >> },
      jd          |-> { << "jd.com" >>, << "jd.hk" >> },
      weibo       |-> { << "weibo.com" >>, << "weibo.cn" >> },
      toutiao     |-> { << "toutiao.com" >> },
      twitter     |-> { << "twitter.com" >>, << "x.com" >> } ]

\* the labels of a subdomain, each with its dot
DotLabels == { "www.", "mp." }

\* the host is the domain or a subdomain of it
DomainOrSubdomain(host, domain) ==
    \/ Lower(host) = domain
    \/ /\ Len(host) = Len(domain) + 1
       /\ host[1] \in DotLabels
       /\ Lower(Tail(host)) = domain

\* the platforms the host belongs to
PlatformsOf(host) ==
    { name \in DOMAIN PlatformDomains :
        \E domain \in PlatformDomains[name] : DomainOrSubdomain(host, domain) }

\* C21 (first half): a host that is a domain of a platform, or a subdomain
\* of one, gets the profile of that platform, whichever of its domains it is.
C21_AliasesGiveSameName ==
    dpOut # NoProfile => \A name \in PlatformsOf(dpUrl.host) : dpOut.name = name

\* C21: the domains of a platform all give its name, and every URL whose
\* host is neither a listed domain nor a subdomain of one gets the unknown
\* profile, which does not require login.
C21_AliasesAndUnknown ==
    dpOut # NoProfile =>
        /\ \A name \in PlatformsOf(dpUrl.host) : dpOut.name = name
        /\ PlatformsOf(dpUrl.host) = {} =>
              dpOut.name = "unknown" /\ dpOut.requires_login = FALSE

(***************************************************************************)
(* Claims about the browser tier, checked under SpecBrowser.               *)
(***************************************************************************)
\* C22: when the loaded page shows a verification marker the tier clicks the
\* verify control at most once, waits for idle at most once and tests the
\* page again once at most; a call that ends with the marker still shown,
\* or with no verify control found, has closed the browser, returned none
\* and extracted nothing.
C22_OneRecoveryThenNone ==
    /\ clicks <= 1 /\ waits <= 1 /\ checks <= 1
    /\ waits <= clicks
    /\ (bpc = "done" /\ bExc = "none" /\ marker0 /\ (page_content \/ verify_btn = "none")) =>
          /\ browser = "closed"
          /\ bResult = None
          /\ ~extracted

\* a call that clicked, waited, found the marker still shown and returned none
C22_Witness ==
    /\ bpc = "done" /\ bExc = "none" /\ marker0 /\ page_content
    /\ clicks = 1 /\ waits = 1 /\ checks = 1
    /\ browser = "closed" /\ bResult = None

(***************************************************************************)
(* Claims about the hosted-extraction tier, checked under SpecFetch.       *)
(***************************************************************************)
\* a marker lies within the first MarkerSliceLen characters
InLeadingSlice(pos) == pos > 0 /\ pos + MarkerLen - 1 <= MarkerSliceLen

\* the markdown is one the claim has the tier accept
AtLeastMinAndSliceClean(md) ==
    /\ md.len >= MinContentLen
    /\ ~InLeadingSlice(md.env)
    /\ ~InLeadingSlice(md.verify)

\* without a credential every attempt of the tier has returned none and
\* none has waited for the service
NoCredentialNoCall ==
    ~apiKey =>
        \A i \in 1..Len(attempts) :
            attempts[i].tier = "firecrawl" => attempts[i].out = "none"

\* the step in which the tier, given markdown by the service, returns
FirecrawlAccepts(r) ==
    (FirecrawlComplete(r) /\ r.kind = "ok") =>
        (attempts'[Len(attempts')].out = "content" <=> AtLeastMinAndSliceClean(r.md))

\* C23: without a credential the hosted-extraction tier returns none and
\* does not call the service; with one, and markdown from the service, it
\* returns content exactly when the markdown has at least 100 characters
\* and no verification marker in its first 500.
C23_FirecrawlThresholds ==
    /\ []NoCredentialNoCall
    /\ [][\A r \in FirecrawlResponses : FirecrawlAccepts(r)]_vars

\* the first half of C23 alone
C23_NoCredentialHalf == []NoCredentialNoCall

(***************************************************************************)
(* Claims about JinaFetcher._extract_title, checked under SpecTitle.       *)
(***************************************************************************)
\* the text after the prefix of the first "Title: " line among the first
\* ten lines, white space at its ends aside; empty when there is no such line
TextAfterPrefix(markdown) ==
    LET lines == Take(Split(markdown, "\n"), TitleLines)
        I == { i \in 1..Len(lines) :
                 Len(Strip(lines[i])) > 0 /\ Strip(lines[i])[1] = "Title: " }
    IN  IF I = {} THEN << >> ELSE Strip(Tail(Strip(lines[Min(I)])))

\* that text with the platform suffix, and nothing else, removed
WithoutSuffix(text) ==
    IF EndsWith(text, PlatformSuffix)
    THEN SubSeq(text, 1, Len(text) - Len(PlatformSuffix))
    ELSE text

\* C24: when a "Title: " line stands among the first ten lines, the title
\* is the text after the prefix with exactly the suffix " / X" removed, cut
\* to 200 characters (white space at the ends of the result aside).
C24_TitleLosesOnlySuffix ==
    LET expected == Strip(WithoutSuffix(TextAfterPrefix(etMarkdown)))
    IN  (etOut # NoTitle /\ Len(expected) > 0) => Strip(etOut) = Take(expected, TitleLimit)

\* the same for the titles that do not end with the suffix
C24_TitleWithoutSuffixKept ==
    LET text == TextAfterPrefix(etMarkdown)
    IN  (etOut # NoTitle /\ Len(text) > 0 /\ ~EndsWith(text, PlatformSuffix)) =>
            etOut = Take(text, TitleLimit)

(***************************************************************************)
(* Claims about a document written and read back, checked under SpecHeader. *)
(***************************************************************************)
\* the title line of the header written
TitleLine == Split(hdText, "\n")[2]

\* the title is "<author> on <platform>: <rest>"
HasAuthorPrefix(title) == Contains(<< " ", "on", " " >>, title) /\ IndexOf(title, ":") > 0

AuthorPrefix(title) == SubSeq(title, 1, IndexOf(title, ":"))
AfterAuthor(title) == Strip(Drop(title, IndexOf(title, ":")))

\* C25: format_frontmatter writes the title without the author attribution:
\* for a title "<author> on <platform>: <rest>" the title line of the header
\* holds <rest> and does not hold "<author> on <platform>:".
C25_AuthorPrefixStripped ==
    (hdText # << >> /\ HasAuthorPrefix(hdArgs.title)) =>
        /\ Contains(AfterAuthor(hdArgs.title), TitleLine)
        /\ ~Contains(AuthorPrefix(hdArgs.title), TitleLine)

\* the value get_url returned for a key, as text or as a list of texts
Got(key) ==
    IF DictHas(hdData, << key >>) THEN DictGet(hdData, << key >>).v ELSE << "missing" >>

\* C27: get_url on a document just written by save_to_obsidian returns the
\* title, the URL, the platform name and the status it was written with, and
\* the tags [platform, "metis"].
C27_CreateThenReadBack ==
    hdData # NotRead =>
        /\ Got("title") = hdArgs.title
        /\ Got("url") = UrlText(hdArgs.url)
        /\ Got("platform") = << detect_platform(hdArgs.url).name >>
        /\ Got("status") = hdArgs.status
        /\ Got("tags") = << << detect_platform(hdArgs.url).name >>, << "metis" >> >>

\* the same for the titles that hold no double quote and have no single
\* quote at their ends
C27_ReadBackWithoutQuotes ==
    (hdData # NotRead /\ ~Contains(<< "\"" >>, hdArgs.title)
       /\ hdArgs.title[1] # "'" /\ hdArgs.title[Len(hdArgs.title)] # "'") =>
        C27_CreateThenReadBack

(***************************************************************************)
(* Claims about the attempts of one fetch, checked under SpecFetch.        *)
(***************************************************************************)
\* no tier stands twice among the attempts of the running fetch
NoTierTwice ==
    \A i, j \in 1..Len(attempts) : attempts[i].tier = attempts[j].tier => i = j

\* C26: within one call of ContentFetcher.fetch no tier is attempted more
\* than once, whatever the URL and the outcomes of the tiers; the headless
\* browser is launched at most once.
C26_NoTierAttemptedTwice == NoTierTwice

\* the same for the URLs that are not wechat URLs
C26_OtherPlatformsNoTierTwice ==
    detect_platform(fUrl).name # "wechat" => NoTierTwice

(***************************************************************************)
(* Claims about the CLI command sync and its _fetch, checked under         *)
(* SpecSync.                                                               *)
(***************************************************************************)
\* the run is over
SyncEnded == spc \in { "complete", "exited" }

\* C28: sync attempts every URL of the seed file that is not already
\* processed, also the URLs that come after one whose acquisition failed,
\* and the run ends after the last URL.
C28_SyncAttemptsEveryUrl ==
    SyncEnded =>
        /\ spc = "complete"
        /\ \A i \in 1..Len(urls) : urls[i] \in Range(attempted) \cup Range(skipped)

\* the same for the runs in which no acquisition fails
C28_SyncWithoutFailure ==
    (SyncEnded /\ \A u \in Range(attempted) : u \in DOMAIN inbox /\ inbox[u].status # "failed") =>
        \A i \in 1..Len(urls) : urls[i] \in Range(attempted) \cup Range(skipped)

\* C29: a document's header says has_translation only if a translation
\* section was appended to the document in this run; when
\* process_with_translation returns false the header is not marked.
C29_MarkedOnlyIfTranslated ==
    \A d \in DOMAIN inbox : inbox[d].has_translation => inbox[d].section

\* the same when the target language is zh and the text of the file is English
C29_MarkedWhenTranslationRuns ==
    \A d \in DOMAIN inbox :
        (inbox[d].has_translation /\ target_lang = "zh" /\ is_english_text(inbox[d].text)) =>
            inbox[d].section

(***************************************************************************)
(* Claims about two interleaved API requests, checked under SpecApi.       *)
(***************************************************************************)
\* the files of the inbox whose header has the URL of the requests
ApiDocsFor(url) == { f \in DOMAIN apiInbox : apiInbox[f].url = url }

\* C30: two fetch pipelines for one URL, interleaved at their awaits, leave
\* at most one document for the URL in the inbox: between the test for an
\* existing file and the write, save_to_obsidian lets no step of the other
\* pipeline in, so what the test saw still holds at the write.
C30_OneDocumentUnderInterleaving ==
    /\ Cardinality(ApiDocsFor(aUrl)) <= 1
    /\ \A p \in Pipelines :
          apc[p] = "write" =>
              /\ running = p
              /\ aExisting[p] = ApiLocated(aUrl)

\* both pipelines fetched content, with different titles, and both are
\* through; the second found the file of the first
C30_Witness ==
    /\ \A p \in Pipelines : apc[p] = "done" /\ aTitle[p] # << >>
    /\ aTitle["p1"] # aTitle["p2"]
    /\ Cardinality(ApiDocsFor(aUrl)) = 1
    /\ \E p \in Pipelines : aExisting[p] # {}

====
